---- MODULE Spec2Model ----
(***************************************************************************)
(* Alert evaluation and dispatch engine of yieldera-alerts.                *)
(*                                                                         *)
(* The repository holds several generations of the monitor.  Each one is   *)
(* modelled by its own specification over the shared variables below:      *)
(*   SpecEval     the condition evaluators (checkCondition, isConditionMet)*)
(*   SpecFreq     the frequency gates (checkNotificationFrequency and the  *)
(*                gate inside the grouped checkAlerts)                     *)
(*   SpecPersist  checkPersistence over a check history                    *)
(*   SpecMonitor  src/alertMonitor.js: checkAllAlerts / processAlert       *)
(*   SpecGrouped  part_019:338-437   : checkAlerts grouped by location     *)
(*   SpecBatched  part_019:823-925   : checkAlerts in parallel batches     *)
(*   SpecFirst    part_019:50-78     : the first, sequential checkAlerts   *)
(*   SpecLocate   src/alertMonitor.js over metric kinds and coordinates    *)
(*   SpecCache    part_019:560-590   : getCachedWeather and the sweep      *)
(*   SpecLimiter  part_019:482-503   : canMakeWeatherApiCall               *)
(*   SpecBatching the batched checkAlerts over more than one batch        *)
(*   SpecSilent   the same against an upstream that may never answer       *)
(*   SpecShutdown the batched monitor with its SIGTERM handler             *)
(*   SpecBoot     part_000:26-34     : the connection test at startup      *)
(*   SpecStore    part_003           : createAlert / updateAlert           *)
(*   SpecImmediate, SpecUnknown, SpecTest                                 *)
(*                src/alertMonitor.js over alerts without persistence,     *)
(*                with an unknown operator, with test notifications        *)
(*   SpecZero     the sequential checkAlerts with an observation of 0      *)
(*   SpecPatch    part_002:242-380   : updateAlert from the fields given   *)
(*                                                                         *)
(* Numbers are fixed point, in hundredths (alerts.threshold_value is       *)
(* DECIMAL(10,2)); times are in milliseconds, as Date.now() gives them.     *)
(***************************************************************************)
EXTENDS Integers, Sequences, FiniteSets, TLC

VARIABLES
    \* ---- evaluator harness (SpecEval)
    evFn,        \* which evaluator is applied
    evValue,     \* observed value (a JavaScript value)
    evOp,        \* condition type
    evT1,        \* threshold
    evT2,        \* second threshold
    evResult,    \* "pending" | TRUE | FALSE
    \* ---- frequency gate harness (SpecFreq)
    fqFn, fqFreq, fqTriggers, fqChecks, fqLast, fqNow, fqFails, fqResult,
    \* ---- persistence harness (SpecPersist)
    psLog, psAlert, psDuration, psFails, psResult,
    \* ---- the monitors
    now,            \* the clock (Date.now(), NOW())
    cycle,          \* number of cycles started so far
    pc,             \* "idle" between cycles, "running" inside one;
                    \* "starting" / "halted" / "exited" for the process
    queue,          \* rows of the running cycle still to be processed
    alerts,         \* table alerts: id -> row
    alert_checks,   \* table alert_checks, in insertion order
    alert_triggers, \* table alert_triggers, in insertion order
    evlog,          \* history: what each evaluation of an alert did
    faults,         \* number of database queries that have thrown so far
    alertCooldownCache, \* alert id -> <<>> or <<time the cooldown was set>>
    batch,          \* alerts of the current batch whose evaluation is pending
    tasks,          \* notifications handed to setImmediate and not yet through
    ticks,          \* number of times the clock has moved inside a behaviour
    \* ---- the caches of the batched monitor (SpecCache, SpecLimiter)
    weatherCache,       \* cache key -> <<>> or <<[data, timestamp]>>
    fieldCache,         \* field id -> <<>> or <<[data, timestamp]>>
    weatherApiLimiter,  \* [calls, lastReset]
    cwLast,             \* history: the last call of getCachedWeather
    grants              \* history: time -> number of calls the limiter granted then

evalVars == <<evFn, evValue, evOp, evT1, evT2, evResult>>
freqVars == <<fqFn, fqFreq, fqTriggers, fqChecks, fqLast, fqNow, fqFails, fqResult>>
persVars == <<psLog, psAlert, psDuration, psFails, psResult>>
monVars  == <<now, cycle, pc, queue, alerts, alert_checks, alert_triggers, evlog, faults>>
batVars  == <<alertCooldownCache, batch, tasks, ticks>>
cacheVars == <<weatherCache, fieldCache, weatherApiLimiter, cwLast, grants>>
harnessVars == <<evalVars, freqVars, persVars, cacheVars>>
vars == <<evalVars, freqVars, persVars, monVars, batVars, cacheVars>>

(***************************************************************************)
(* JavaScript values and the coercions the evaluators rely on.             *)
(***************************************************************************)
NaN       == [k |-> "nan",       n |-> 0]
Undefined == [k |-> "undefined", n |-> 0]
Null      == [k |-> "null",      n |-> 0]
Num(n)    == [k |-> "num",       n |-> n]

\* ToNumber as applied by <, >, <=, >=, - and isNaN: undefined -> NaN, null -> +0
ToNumber(x) ==
    CASE x.k = "num"  -> x
      [] x.k = "null" -> Num(0)
      [] OTHER        -> NaN

\* a < b : false as soon as one operand is NaN
JsLt(a, b) ==
    LET x == ToNumber(a)
        y == ToNumber(b)
    IN  x.k = "num" /\ y.k = "num" /\ x.n < y.n

\* a <= b
JsLe(a, b) ==
    LET x == ToNumber(a)
        y == ToNumber(b)
    IN  x.k = "num" /\ y.k = "num" /\ x.n <= y.n

\* Math.abs(a - b)
JsAbsDiff(a, b) ==
    LET x == ToNumber(a)
        y == ToNumber(b)
    IN  IF x.k = "num" /\ y.k = "num"
        THEN Num(IF x.n >= y.n THEN x.n - y.n ELSE y.n - x.n)
        ELSE NaN

\* isNaN(value)
JsIsNaN(x) == ToNumber(x).k = "nan"

\* 0.1, in hundredths
Tolerance == 10

(***************************************************************************)
(* Condition evaluators.                                                   *)
(***************************************************************************)
\* mutant: lessThan / greaterThan written as the negation of >= / <=
checkCondition_negated(conditionType, thresholdValue, secondThresholdValue, currentValue) ==
    CASE conditionType = "lessThan"    -> ~JsLe(thresholdValue, currentValue)
      [] conditionType = "greaterThan" -> ~JsLe(currentValue, thresholdValue)
      [] conditionType = "equals"      ->
            JsLt(JsAbsDiff(currentValue, thresholdValue), Num(Tolerance))
      [] conditionType = "between"     ->
            JsLe(thresholdValue, currentValue) /\ JsLe(currentValue, secondThresholdValue)
      [] OTHER                         -> FALSE

\* mutant: the default branch of the switch answers true
checkCondition_openDefault(conditionType, thresholdValue, secondThresholdValue, currentValue) ==
    CASE conditionType = "lessThan"    -> JsLt(currentValue, thresholdValue)
      [] conditionType = "greaterThan" -> JsLt(thresholdValue, currentValue)
      [] conditionType = "equals"      ->
            JsLt(JsAbsDiff(currentValue, thresholdValue), Num(Tolerance))
      [] conditionType = "between"     ->
            JsLe(thresholdValue, currentValue) /\ JsLe(currentValue, secondThresholdValue)
      [] OTHER                         -> TRUE

\* src/alertMonitor.js checkCondition(alert, currentValue)
checkCondition(conditionType, thresholdValue, secondThresholdValue, currentValue) ==
    CASE conditionType = "lessThan"    -> JsLt(currentValue, thresholdValue)
      [] conditionType = "greaterThan" -> JsLt(thresholdValue, currentValue)
      [] conditionType = "equals"      ->
            JsLt(JsAbsDiff(currentValue, thresholdValue), Num(Tolerance))
      [] conditionType = "between"     ->
            JsLe(thresholdValue, currentValue) /\ JsLe(currentValue, secondThresholdValue)
      [] OTHER                         -> FALSE

\* part_017 isConditionMet(value, condition, threshold, tolerance = 0.1)
isConditionMet(value, condition, threshold) ==
    IF value.k = "null" \/ value.k = "undefined" \/ JsIsNaN(value)
    THEN FALSE
    ELSE CASE condition = "greater_than" -> JsLt(threshold, value)
           [] condition = "less_than"    -> JsLt(value, threshold)
           [] condition = "equal_to"     ->
                 JsLe(JsAbsDiff(value, threshold), Num(Tolerance))
           [] OTHER                      -> FALSE

\* part_019:813 isConditionMet(value, condition, threshold) of the batched monitor
isConditionMetBatched(value, condition, threshold) ==
    CASE condition = "greater_than" -> JsLt(threshold, value)
      [] condition = "less_than"    -> JsLt(value, threshold)
      [] condition = "equal_to"     ->
            JsLt(JsAbsDiff(value, threshold), Num(Tolerance))
      [] OTHER                      -> FALSE

(***************************************************************************)
(* SpecEval: the evaluators applied to every input of a small domain.      *)
(***************************************************************************)
EvalNums       == {0, 10, 3490, 3491, 3500, 3509, 3510, 3511}
EvalValues     == {NaN, Undefined, Null} \cup {Num(n) : n \in EvalNums}
EvalThresholds == {Num(0), Num(3500)}
EvalSeconds    == {Null, Num(3500), Num(3510)}
EvalFns        == {"checkCondition", "isConditionMet", "isConditionMetBatched"}
\* the condition types of both vocabularies, and one no evaluator knows
EvalOps        == {"lessThan", "greaterThan", "equals", "between",
                   "less_than", "greater_than", "equal_to", "approx"}

BoolStr(b) == IF b THEN "true" ELSE "false"

EvalIdle ==
    /\ evFn = "none" /\ evValue = NaN /\ evOp = "none"
    /\ evT1 = NaN /\ evT2 = NaN /\ evResult = "pending"

EvalInit ==
    /\ evFn \in EvalFns
    /\ evValue \in EvalValues
    /\ evOp \in EvalOps
    /\ evT1 \in EvalThresholds
    /\ evT2 \in EvalSeconds
    /\ evResult = "pending"

Evaluate ==
    /\ evResult = "pending"
    /\ evResult' =
          CASE evFn = "checkCondition" ->
                   BoolStr(checkCondition(evOp, evT1, evT2, evValue))
            [] evFn = "isConditionMet" ->
                   BoolStr(isConditionMet(evValue, evOp, evT1))
            [] OTHER ->
                   BoolStr(isConditionMetBatched(evValue, evOp, evT1))
    /\ UNCHANGED <<evFn, evValue, evOp, evT1, evT2>>

(***************************************************************************)
(* Times.  A nullable DATETIME is <<>> (NULL) or <<t>>.                    *)
(***************************************************************************)
MINUTE == 60 * 1000
HOUR   == 60 * 60 * 1000
DAY    == 24 * 60 * 60 * 1000

\* rows of a log that belong to one alert, oldest first
RowsOf(log, alertId) == SelectSeq(log, LAMBDA r : r.alert_id = alertId)

\* ORDER BY timestamp DESC LIMIT 1 over the rows of one alert
LatestTimestamp(rows) ==
    CHOOSE t \in {rows[i].timestamp : i \in 1..Len(rows)} :
        \A i \in 1..Len(rows) : rows[i].timestamp <= t

(***************************************************************************)
(* Frequency gates.                                                        *)
(***************************************************************************)
\* mutant: "more than an hour ago" taken literally, > instead of >=
checkNotificationFrequency_strict(alertId, notificationFrequency, triggers, checks, tnow, fails) ==
    LET latestTrigger == RowsOf(triggers, alertId) IN
    IF fails = "latest" THEN TRUE
    ELSE IF Len(latestTrigger) = 0 THEN TRUE
    ELSE LET lastTriggerTime == LatestTimestamp(latestTrigger) IN
         CASE notificationFrequency = "once" ->
                  IF fails = "reset" THEN TRUE
                  ELSE \E i \in 1..Len(checks) :
                          /\ checks[i].alert_id = alertId
                          /\ checks[i].timestamp > lastTriggerTime
                          /\ checks[i].condition_met = FALSE
           [] notificationFrequency = "hourly" -> (tnow - lastTriggerTime) > HOUR
           [] notificationFrequency = "daily"  -> (tnow - lastTriggerTime) > DAY
           [] OTHER -> TRUE

\* mutant: the catch answers false
checkNotificationFrequency_failClosed(alertId, notificationFrequency, triggers, checks, tnow, fails) ==
    LET latestTrigger == RowsOf(triggers, alertId) IN
    IF fails = "latest" THEN FALSE
    ELSE IF Len(latestTrigger) = 0 THEN TRUE
    ELSE LET lastTriggerTime == LatestTimestamp(latestTrigger) IN
         CASE notificationFrequency = "once" ->
                  IF fails = "reset" THEN FALSE
                  ELSE \E i \in 1..Len(checks) :
                          /\ checks[i].alert_id = alertId
                          /\ checks[i].timestamp > lastTriggerTime
                          /\ checks[i].condition_met = FALSE
           [] notificationFrequency = "hourly" -> (tnow - lastTriggerTime) >= HOUR
           [] notificationFrequency = "daily"  -> (tnow - lastTriggerTime) >= DAY
           [] OTHER -> TRUE

\* src/alertMonitor.js checkNotificationFrequency(alert).
\* fails: "none", or the query that throws ("latest": the latest-trigger
\* lookup, "reset": the reset count of frequency 'once'); the catch returns true.
checkNotificationFrequency(alertId, notificationFrequency, triggers, checks, tnow, fails) ==
    LET latestTrigger == RowsOf(triggers, alertId) IN
    IF fails = "latest" THEN TRUE
    ELSE IF Len(latestTrigger) = 0 THEN TRUE
    ELSE LET lastTriggerTime == LatestTimestamp(latestTrigger) IN
         CASE notificationFrequency = "once" ->
                  IF fails = "reset" THEN TRUE
                  ELSE \E i \in 1..Len(checks) :
                          /\ checks[i].alert_id = alertId
                          /\ checks[i].timestamp > lastTriggerTime
                          /\ checks[i].condition_met = FALSE
           [] notificationFrequency = "hourly" -> (tnow - lastTriggerTime) >= HOUR
           [] notificationFrequency = "daily"  -> (tnow - lastTriggerTime) >= DAY
           [] OTHER -> TRUE

\* part_019:403-416, the gate of the grouped checkAlerts (shouldSend).
\* hoursDiff = (tnow - lastTriggered) / (1000*60*60); hoursDiff < 1 is
\* tnow - lastTriggered < HOUR, and hoursDiff < 24 is tnow - lastTriggered < DAY.
shouldSend(last_triggered, notification_frequency, tnow) ==
    IF Len(last_triggered) > 0 /\ notification_frequency # "once"
    THEN LET diff == tnow - last_triggered[1] IN
         CASE notification_frequency = "hourly" /\ diff < HOUR -> FALSE
           [] notification_frequency = "daily"  /\ diff < DAY  -> FALSE
           [] OTHER -> TRUE
    ELSE TRUE

(***************************************************************************)
(* SpecFreq: the two gates applied to one alert with a known last trigger. *)
(***************************************************************************)
FreqAlert    == 1
FreqBase     == 2 * 60 * 60 * 1000      \* time of the last trigger, t
FreqElapsed  == {0, 59 * MINUTE, HOUR - 1, HOUR, 61 * MINUTE,
                 DAY - MINUTE, DAY - 1, DAY, DAY + MINUTE}
FreqPolicies == {"once", "hourly", "daily", "weekly"}
FreqFns      == {"checkNotificationFrequency", "shouldSend"}
FreqFailures == {"none", "latest", "reset"}

TriggerRow(a, t) == [alert_id |-> a, notification_sent |-> TRUE, timestamp |-> t]
CheckRow(a, met, t) == [alert_id |-> a, condition_met |-> met, timestamp |-> t]

\* trigger histories: none, one trigger at t, an older one before it,
\* and a later trigger of another alert
FreqTriggerLogs ==
    { <<>>,
      <<TriggerRow(FreqAlert, FreqBase)>>,
      <<TriggerRow(FreqAlert, FreqBase - HOUR), TriggerRow(FreqAlert, FreqBase)>>,
      <<TriggerRow(FreqAlert, FreqBase), TriggerRow(FreqAlert + 1, FreqBase + MINUTE)>> }

\* check histories: the check of the triggering cycle alone, a not-met check
\* before the trigger, a not-met check after it
FreqCheckLogs ==
    { <<CheckRow(FreqAlert, TRUE, FreqBase)>>,
      <<CheckRow(FreqAlert, FALSE, FreqBase - HOUR), CheckRow(FreqAlert, TRUE, FreqBase)>>,
      <<CheckRow(FreqAlert, TRUE, FreqBase), CheckRow(FreqAlert, FALSE, FreqBase + MINUTE)>> }

FreqIdle ==
    /\ fqFn = "none" /\ fqFreq = "none" /\ fqTriggers = <<>> /\ fqChecks = <<>>
    /\ fqLast = <<>> /\ fqNow = 0 /\ fqFails = "none" /\ fqResult = "pending"

FreqInit ==
    /\ fqFn \in FreqFns
    /\ fqFreq \in FreqPolicies
    /\ fqTriggers \in FreqTriggerLogs
    /\ fqChecks \in FreqCheckLogs
    \* alerts.last_triggered is written together with the trigger row
    /\ fqLast = IF Len(RowsOf(fqTriggers, FreqAlert)) = 0 THEN <<>> ELSE <<FreqBase>>
    /\ \E e \in FreqElapsed : fqNow = FreqBase + e
    /\ fqFails \in FreqFailures
    /\ fqResult = "pending"

ApplyGate ==
    /\ fqResult = "pending"
    /\ fqResult' =
          IF fqFn = "checkNotificationFrequency"
          THEN BoolStr(checkNotificationFrequency(FreqAlert, fqFreq, fqTriggers,
                                                  fqChecks, fqNow, fqFails))
          ELSE BoolStr(shouldSend(fqLast, fqFreq, fqNow))
    /\ UNCHANGED <<fqFn, fqFreq, fqTriggers, fqChecks, fqLast, fqNow, fqFails>>

(***************************************************************************)
(* Persistence.                                                            *)
(***************************************************************************)
\* the last n elements of a sequence (all of it when shorter), newest first
LatestRows(rows, n) ==
    LET m == IF n < Len(rows) THEN n ELSE Len(rows)
    IN  [i \in 1..m |-> rows[Len(rows) + 1 - i]]

\* mutant: the "not enough history" test left out
checkPersistence_optimistic(alertId, durationHours, checks, fails) ==
    IF fails THEN FALSE
    ELSE LET history == LatestRows(RowsOf(checks, alertId), durationHours)
         IN  \A i \in 1..Len(history) : history[i].condition_met

\* mutant: the window must hold more rows than the duration asks for
checkPersistence_needsMore(alertId, durationHours, checks, fails) ==
    IF fails THEN FALSE
    ELSE LET history == LatestRows(RowsOf(checks, alertId), durationHours)
         IN  IF Len(history) <= durationHours
             THEN FALSE
             ELSE \A i \in 1..Len(history) : history[i].condition_met

\* src/alertMonitor.js checkPersistence(alert, currentValue).
\* The table alert_checks is kept in insertion order, which is timestamp order.
checkPersistence(alertId, durationHours, checks, fails) ==
    IF fails THEN FALSE
    ELSE LET history == LatestRows(RowsOf(checks, alertId), durationHours)
         IN  IF Len(history) < durationHours
             THEN FALSE
             ELSE \A i \in 1..Len(history) : history[i].condition_met

(***************************************************************************)
(* SpecPersist: checkPersistence over every short check history.           *)
(***************************************************************************)
MaxHistory  == 3     \* longest check history drawn
MaxDuration == 3     \* largest duration_hours drawn
PersAlerts  == {1, 2}

\* histories of at most n rows over two alerts; row i is stamped i hours
RECURSIVE Histories(_)
Histories(n) ==
    IF n = 0 THEN {<<>>}
    ELSE LET shorter == Histories(n - 1) IN
         shorter \cup
         { Append(h, CheckRow(a, met, Len(h) * HOUR)) :
             h \in {g \in shorter : Len(g) = n - 1},
             a \in PersAlerts, met \in BOOLEAN }

PersIdle ==
    /\ psLog = <<>> /\ psAlert = 0 /\ psDuration = 0 /\ psFails = FALSE
    /\ psResult = "pending"

PersInit ==
    /\ psLog \in Histories(MaxHistory)
    /\ psAlert \in PersAlerts
    /\ psDuration \in 0..MaxDuration
    /\ psFails \in BOOLEAN
    /\ psResult = "pending"

ApplyPersistence ==
    /\ psResult = "pending"
    /\ psResult' = BoolStr(checkPersistence(psAlert, psDuration, psLog, psFails))
    /\ UNCHANGED <<psLog, psAlert, psDuration, psFails>>

(***************************************************************************)
(* Specifications of the three harnesses.                                  *)
(***************************************************************************)
MonIdle ==
    /\ now = 0 /\ cycle = 0 /\ pc = "idle" /\ queue = <<>> /\ alerts = <<>>
    /\ alert_checks = <<>> /\ alert_triggers = <<>> /\ evlog = <<>> /\ faults = 0

BatIdle ==
    /\ alertCooldownCache = <<>> /\ batch = {} /\ tasks = {} /\ ticks = 0

CacheIdle ==
    /\ weatherCache = <<>> /\ fieldCache = <<>>
    /\ weatherApiLimiter = [calls |-> 0, lastReset |-> 0]
    /\ cwLast = <<>> /\ grants = <<>>

InitEval == EvalInit /\ FreqIdle /\ PersIdle /\ MonIdle /\ BatIdle /\ CacheIdle
NextEval == Evaluate /\ UNCHANGED <<freqVars, persVars, monVars, batVars, cacheVars>>
SpecEval == InitEval /\ [][NextEval]_vars

InitFreq == FreqInit /\ EvalIdle /\ PersIdle /\ MonIdle /\ BatIdle /\ CacheIdle
NextFreq == ApplyGate /\ UNCHANGED <<evalVars, persVars, monVars, batVars, cacheVars>>
SpecFreq == InitFreq /\ [][NextFreq]_vars

InitPersist == PersInit /\ EvalIdle /\ FreqIdle /\ MonIdle /\ BatIdle /\ CacheIdle
NextPersist == ApplyPersistence /\ UNCHANGED <<evalVars, freqVars, monVars, batVars, cacheVars>>
SpecPersist == InitPersist /\ [][NextPersist]_vars

(***************************************************************************)
(* Properties of the evaluators, the gates and the persistence check.      *)
(***************************************************************************)

\* C10: whatever the operator and the threshold, an observed value that is
\* NaN or undefined is evaluated as "condition not met" by every evaluator
\* (checkCondition, isConditionMet); the evaluation yields a boolean.
C10_MissingValueNeverTriggers ==
    (evResult # "pending" /\ evValue \in {NaN, Undefined}) => evResult = "false"

\* checkCondition has answered for 'between' on an undefined observation
C10_Witness ==
    /\ evResult = "false" /\ evFn = "checkCondition"
    /\ evOp = "between" /\ evValue = Undefined /\ evT1 = Num(0)

PersOwn == RowsOf(psLog, psAlert)
PersWindowFull == Len(PersOwn) >= psDuration
PersWindowAllTrue ==
    \A i \in 1..Len(PersOwn) :
        i > Len(PersOwn) - psDuration => PersOwn[i].condition_met

\* C5: checkPersistence answers true only if the alert has at least
\* durationHours check records and the most recent durationHours of them all
\* have condition_met = true; when the history is read and that window is
\* full and all true, it answers true.
C5_Persistence ==
    psResult # "pending" =>
        /\ psResult = "true" => (PersWindowFull /\ PersWindowAllTrue)
        /\ (~psFails /\ PersWindowFull /\ PersWindowAllTrue) => psResult = "true"

\* two met checks on record, three required: refused for lack of history
C5_Witness ==
    /\ psResult = "false" /\ ~psFails /\ psDuration = 3
    /\ Len(PersOwn) = 2 /\ \A i \in 1..Len(PersOwn) : PersOwn[i].condition_met

(***************************************************************************)
(* SpecMonitor: src/alertMonitor.js.  checkAllAlerts awaits processAlert   *)
(* for one alert after the other, so one processAlert is one step.  The    *)
(* clock stands still inside a cycle and moves between cycles.             *)
(***************************************************************************)
MaxCycles == 2      \* cycles started in one behaviour
MaxFaults == 1      \* database queries that throw in one behaviour

MonAlerts == {1, 2, 3}
\* time between two cycles: none (checkAllAlerts called again at once),
\* the hour of the schedule, a day
TickSteps == {0, HOUR, DAY}
\* what getCurrentValue resolves to: below / above the threshold, or no
\* such key in the provider's answer
MonValues == {Num(3400), Num(3600), Undefined}
\* the query of processAlert that throws, if any (at most one per alert)
DbFaults  == {"none", "field", "logCheck", "history", "latest", "reset",
              "logTrigger", "updateAlert"}
SendOutcomes == {"ok", "failed"}

MonRow(id, freq, duration, isActive, sms) ==
    [ id |-> id, active |-> isActive,
      conditionType |-> "greaterThan",
      thresholdValue |-> Num(3500), secondThresholdValue |-> Null,
      durationHours |-> duration, notificationFrequency |-> freq,
      emailNotification |-> TRUE, smsNotification |-> sms,
      last_triggered |-> <<>>,
      \* the metric, and the coordinates of the alert's row of table fields
      alertType |-> "temperature",
      center_lat |-> Num(-1780), center_lon |-> Num(3105) ]

MonInit ==
    /\ now = 0 /\ cycle = 0 /\ pc = "idle" /\ queue = <<>>
    /\ \E f \in {"once", "hourly", "daily"}, d \in {1, 2} :
          alerts = [a \in MonAlerts |->
                      CASE a = 1 -> MonRow(1, f, d, TRUE, FALSE)
                        [] a = 2 -> MonRow(2, "hourly", 1, TRUE, TRUE)
                        [] OTHER -> MonRow(a, "once", 1, FALSE, FALSE)]
    /\ alert_checks = <<>> /\ alert_triggers = <<>> /\ evlog = <<>> /\ faults = 0

\* ids of a set, ascending (the order the rows are returned in)
Ascending(S) ==
    [i \in 1..Cardinality(S) |->
        CHOOSE x \in S : Cardinality({y \in S : y < x}) = i - 1]

\* SELECT * FROM alerts WHERE active = true (alertMonitor.js:40-43)
SelectActive_all == DOMAIN alerts
SelectActive == {a \in DOMAIN alerts : alerts[a].active}

\* alertJob fires `step` after the previous cycle ended and runs
\* checkAllAlerts up to the loop: SELECT * FROM alerts WHERE active = true.
\* A query that throws ends the cycle in the catch.
CheckAllAlerts(step, loadThrows) ==
    /\ pc = "idle" /\ cycle < MaxCycles
    /\ cycle = 0 => step = 0
    /\ now' = now + step
    /\ loadThrows => faults < MaxFaults
    /\ faults' = IF loadThrows THEN faults + 1 ELSE faults
    /\ cycle' = cycle + 1
    /\ IF loadThrows
       THEN UNCHANGED <<pc, queue>>
       ELSE /\ pc' = "running"
            /\ LET ids == Ascending(SelectActive)
               IN  queue' = [i \in 1..Len(ids) |-> alerts[ids[i]]]
    /\ UNCHANGED <<alerts, alert_checks, alert_triggers, evlog>>

\* getCurrentValue(alertType, field): getTemperature, getRainfall and
\* getWindSpeed pass field.center_lat / field.center_lon to the weather API,
\* which rejects a request without them (axios throws, the getter rethrows);
\* getNDVI reads ndvi_measurements by field.id and uses no coordinates.
MetricKinds == {"temperature", "rainfall", "ndvi", "wind"}
HasCoordinates(alert) == alert.center_lat.k = "num" /\ alert.center_lon.k = "num"
UpstreamRejects(alert) ==
    alert.alertType \in {"temperature", "rainfall", "wind"} /\ ~HasCoordinates(alert)

\* mutant: the getter swallows the error of a failed request
getCurrentValue_swallows(upstreamFailed) == "resolves"

\* getCurrentValue / getTemperature ...: the catch of the getter logs the
\* error of a failed request and throws it again, to processAlert
getCurrentValue(upstreamFailed) ==
    IF upstreamFailed THEN "throws" ELSE "resolves"

\* mutant: every check is recorded as met
logAlertCheck_met(alertId, value, conditionMet, checks, tnow) ==
    Append(checks, [alert_id |-> alertId, value |-> value,
                    condition_met |-> TRUE, timestamp |-> tnow])

\* the INSERT of logAlertCheck(alertId, value, conditionMet)
logAlertCheck(alertId, value, conditionMet, checks, tnow) ==
    Append(checks, [alert_id |-> alertId, value |-> value,
                    condition_met |-> conditionMet, timestamp |-> tnow])

\* mutant: the trigger row is written with notification_sent = false
logAlertTrigger_unsent(alertId, triggers, tnow) ==
    Append(triggers, [alert_id |-> alertId, notification_sent |-> FALSE,
                      timestamp |-> tnow])

\* the INSERT of logAlertTrigger(alertId, value):
\* INSERT INTO alert_triggers (alert_id, value, notification_sent) VALUES (?, ?, true)
logAlertTrigger(alertId, triggers, tnow) ==
    Append(triggers, [alert_id |-> alertId, notification_sent |-> TRUE,
                      timestamp |-> tnow])

\* processAlert(alert) for the next alert of the loop, with triggerAlert,
\* sendEmailNotification, sendSMSNotification and logAlertTrigger.
ProcessAlert(value, fetchThrows, emailOutcome, smsOutcome, fault) ==
    /\ pc = "running" /\ Len(queue) > 0
    /\ fault # "none" => faults < MaxFaults
    \* an exception ends processAlert: what comes after it is never reached,
    \* so its inputs are fixed
    /\ fault = "field" => ~fetchThrows
    /\ (fault = "field" \/ fetchThrows \/ UpstreamRejects(Head(queue))) =>
          /\ fault \in {"none", "field"} /\ value = Undefined
          /\ emailOutcome = "ok" /\ smsOutcome = "ok"
    /\ faults' = IF fault # "none" THEN faults + 1 ELSE faults
    /\ LET alert == Head(queue)
           \* field query, then getCurrentValue: either may throw
           \* the request of the getter fails, times out or is rejected
           upstreamFailed == fault # "field" /\ (fetchThrows \/ UpstreamRejects(alert))
           fetched == fault # "field" /\ getCurrentValue(upstreamFailed) = "resolves"
           condition == fetched /\ checkCondition(alert.conditionType,
                             alert.thresholdValue, alert.secondThresholdValue, value)
           \* logAlertCheck: the INSERT throws on an undefined parameter
           checkLogged == fetched /\ fault # "logCheck" /\ value.k = "num"
           checks1 == IF checkLogged
                      THEN logAlertCheck(alert.id, value, condition, alert_checks, now)
                      ELSE alert_checks
           persistent == condition /\ checkPersistence(alert.id, alert.durationHours,
                                                       checks1, fault = "history")
           shouldNotify == persistent /\
                checkNotificationFrequency(alert.id, alert.notificationFrequency,
                    alert_triggers, checks1, now,
                    IF fault \in {"latest", "reset"} THEN fault ELSE "none")
           email == IF shouldNotify /\ alert.emailNotification THEN emailOutcome ELSE "none"
           sms   == IF shouldNotify /\ alert.smsNotification THEN smsOutcome ELSE "none"
           \* logAlertTrigger: INSERT ... notification_sent = true, then UPDATE alerts
           inserted == shouldNotify /\ fault # "logTrigger"
           updated  == inserted /\ fault # "updateAlert"
           triggers1 == IF inserted
                        THEN logAlertTrigger(alert.id, alert_triggers, now)
                        ELSE alert_triggers
       IN  /\ alert_checks' = checks1
           /\ alert_triggers' = triggers1
           /\ alerts' = IF updated
                        THEN [alerts EXCEPT ![alert.id].last_triggered = <<now>>]
                        ELSE alerts
           /\ evlog' = Append(evlog,
                 [ alert_id |-> alert.id, cycle |-> cycle, time |-> now,
                   freq |-> alert.notificationFrequency, value |-> value,
                   upstreamFailed |-> upstreamFailed,
                   fetched |-> fetched, met |-> condition, logged |-> checkLogged,
                   persistent |-> persistent,
                   gate |-> IF persistent THEN BoolStr(shouldNotify) ELSE "na",
                   email |-> email, sms |-> sms,
                   trigger |-> IF inserted THEN Len(triggers1) ELSE 0,
                   updated |-> updated ])
    /\ queue' = Tail(queue)
    /\ UNCHANGED <<now, cycle, pc>>

\* the loop of checkAllAlerts is through
FinishCycle ==
    /\ pc = "running" /\ queue = <<>>
    /\ pc' = "idle"
    /\ UNCHANGED <<now, cycle, queue, alerts, alert_checks, alert_triggers, evlog, faults>>

MonStart  ==
    /\ \E st \in TickSteps, t \in BOOLEAN : CheckAllAlerts(st, t)
    /\ UNCHANGED <<harnessVars, batVars>>
MonAlert  ==
    /\ \E v \in MonValues, ft \in BOOLEAN, e \in SendOutcomes, m \in SendOutcomes,
          f \in DbFaults : ProcessAlert(v, ft, e, m, f)
    /\ UNCHANGED <<harnessVars, batVars>>
MonFinish == FinishCycle /\ UNCHANGED <<harnessVars, batVars>>

InitMonitor == MonInit /\ EvalIdle /\ FreqIdle /\ PersIdle /\ BatIdle /\ CacheIdle
NextMonitor == MonStart \/ MonAlert \/ MonFinish
SpecMonitor == InitMonitor /\ [][NextMonitor]_vars

(***************************************************************************)
(* SpecImmediate: the same monitor over alerts that ask for no             *)
(* persistence: duration_hours 0 (alert 1) and 1 (alert 2).                *)
(***************************************************************************)
ImmInit ==
    /\ now = 0 /\ cycle = 0 /\ pc = "idle" /\ queue = <<>>
    /\ \E f \in {"once", "hourly"} :
          alerts = [a \in MonAlerts |->
                      CASE a = 1 -> MonRow(1, f, 0, TRUE, FALSE)
                        [] a = 2 -> MonRow(2, "hourly", 1, TRUE, TRUE)
                        [] OTHER -> MonRow(a, "once", 1, FALSE, FALSE)]
    /\ alert_checks = <<>> /\ alert_triggers = <<>> /\ evlog = <<>> /\ faults = 0

InitImmediate == ImmInit /\ EvalIdle /\ FreqIdle /\ PersIdle /\ BatIdle /\ CacheIdle
SpecImmediate == InitImmediate /\ [][NextMonitor]_vars

(***************************************************************************)
(* SpecUnknown: the same monitor with an alert whose condition_type is not *)
(* a case of checkCondition's switch: the spelling of the later monitors   *)
(* ('greater_than') or no operator at all.  Alert 1 is processed first,    *)
(* alert 2 after it.                                                       *)
(***************************************************************************)
RecognisedOps == {"lessThan", "greaterThan", "equals", "between"}
UnknownOps == {"greater_than", "approx"}

UnkInit ==
    /\ now = 0 /\ cycle = 0 /\ pc = "idle" /\ queue = <<>>
    /\ \E op \in UnknownOps :
          alerts = [a \in MonAlerts |->
                      CASE a = 1 -> [MonRow(1, "hourly", 1, TRUE, FALSE)
                                        EXCEPT !.conditionType = op]
                        [] a = 2 -> MonRow(2, "hourly", 1, TRUE, TRUE)
                        [] OTHER -> MonRow(a, "once", 1, FALSE, FALSE)]
    /\ alert_checks = <<>> /\ alert_triggers = <<>> /\ evlog = <<>> /\ faults = 0

InitUnknown == UnkInit /\ EvalIdle /\ FreqIdle /\ PersIdle /\ BatIdle /\ CacheIdle
SpecUnknown == InitUnknown /\ [][NextMonitor]_vars

(***************************************************************************)
(* SpecTest: the monitor over one active alert, with the manual test       *)
(* notification of part_003:482-620 sent between cycles.                   *)
(***************************************************************************)
MaxTests == 1

TstInit ==
    /\ now = 0 /\ cycle = 0 /\ pc = "idle" /\ queue = <<>>
    /\ \E f \in {"once", "hourly", "daily"} :
          alerts = [a \in MonAlerts |->
                      CASE a = 1 -> MonRow(1, f, 1, TRUE, FALSE)
                        [] OTHER -> MonRow(a, "hourly", 1, FALSE, FALSE)]
    /\ alert_checks = <<>> /\ alert_triggers = <<>> /\ evlog = <<>> /\ faults = 0

\* the entries of evlog made by testAlert (the monitor's carry no kind)
TestsSent == {i \in 1..Len(evlog) : "kind" \in DOMAIN evlog[i]}

\* testAlert for an alert that exists: the test mail is sent (or fails, which
\* is caught), then INSERT INTO alert_triggers (..., notification_sent,
\* timestamp, is_test) VALUES (..., true, NOW(), true); when the INSERT
\* throws the request ends in the catch with status 500
testAlert(alertId, emailOutcome, insertThrows) ==
    /\ pc = "idle" /\ Cardinality(TestsSent) < MaxTests
    /\ alert_triggers' =
          IF insertThrows THEN alert_triggers
          ELSE Append(alert_triggers,
                      [alert_id |-> alertId, notification_sent |-> TRUE,
                       timestamp |-> now, is_test |-> TRUE])
    /\ evlog' = Append(evlog,
          [ kind |-> "test", alert_id |-> alertId, cycle |-> cycle, time |-> now,
            email |-> emailOutcome, sms |-> "none", inserted |-> ~insertThrows ])
    /\ UNCHANGED <<now, cycle, pc, queue, alerts, alert_checks, faults>>

TstAlert ==
    /\ \E a \in MonAlerts, e \in SendOutcomes, t \in BOOLEAN : testAlert(a, e, t)
    /\ UNCHANGED <<harnessVars, batVars>>

InitTest == TstInit /\ EvalIdle /\ FreqIdle /\ PersIdle /\ BatIdle /\ CacheIdle
NextTest == MonStart \/ MonAlert \/ MonFinish \/ TstAlert
SpecTest == InitTest /\ [][NextTest]_vars

(***************************************************************************)
(* SpecLocate: the same monitor over alerts of every metric kind, on a     *)
(* field with or without coordinates.                                      *)
(***************************************************************************)
LocRow(id, type, lat, lon) ==
    [MonRow(id, "hourly", 1, TRUE, FALSE) EXCEPT
        !.alertType = type, !.center_lat = lat, !.center_lon = lon]

\* metric kind, center_lat, center_lon of the field of alert 1
LocCases ==
    { <<"temperature", Num(-1780), Num(3105)>>, <<"temperature", Null, Num(3105)>>,
      <<"rainfall", Num(-1780), Null>>, <<"wind", Null, Null>>,
      <<"ndvi", Num(-1780), Num(3105)>>, <<"ndvi", Null, Num(3105)>> }

LocInit ==
    /\ now = 0 /\ cycle = 0 /\ pc = "idle" /\ queue = <<>>
    /\ \E c \in LocCases :
          alerts = [a \in MonAlerts |->
                      CASE a = 1 -> LocRow(1, c[1], c[2], c[3])
                        [] a = 2 -> MonRow(2, "hourly", 1, TRUE, FALSE)
                        [] OTHER -> MonRow(a, "once", 1, FALSE, FALSE)]
    /\ alert_checks = <<>> /\ alert_triggers = <<>> /\ evlog = <<>> /\ faults = 0

InitLocate == LocInit /\ EvalIdle /\ FreqIdle /\ PersIdle /\ BatIdle /\ CacheIdle
NextLocate == MonStart \/ MonAlert \/ MonFinish
SpecLocate == InitLocate /\ [][NextLocate]_vars

(***************************************************************************)
(* SpecGrouped: part_019:338-437, checkAlerts grouped by coordinates, with *)
(* sendEmailNotification of part_019:99-296.  The weather of a location is *)
(* fetched once and every alert of the group is handled inside one try, so *)
(* one location group is one step.                                         *)
(***************************************************************************)
GrpAlerts == {1, 2, 3}

\* parseFloat(x): a number stays, anything else here gives NaN
ParseFloat(x) == IF x.k = "num" THEN x ELSE NaN

\* part_019:299 isConditionMet(value, condition, threshold)
isConditionMetGrouped(value, condition, threshold) ==
    LET val == ParseFloat(value)
        thresh == ParseFloat(threshold)
    IN  CASE condition = "greater_than" -> JsLt(thresh, val)
          [] condition = "less_than"    -> JsLt(val, thresh)
          [] condition = "equal_to"     -> JsLt(JsAbsDiff(val, thresh), Num(Tolerance))
          [] OTHER                      -> FALSE

GrpRow(id, freq, lat, emails) ==
    [ id |-> id, active |-> TRUE, alert_type |-> "temperature",
      condition_type |-> "greater_than", threshold_value |-> Num(3500),
      notification_frequency |-> freq, notification_emails |-> emails,
      latitude |-> lat, longitude |-> 31, last_triggered |-> <<>> ]

GrpInit ==
    /\ now = 0 /\ cycle = 0 /\ pc = "idle" /\ queue = <<>>
    /\ \E f \in {"once", "hourly", "daily"} :
          alerts = [a \in GrpAlerts |->
                      CASE a = 1 -> GrpRow(1, f, -17, TRUE)
                        [] a = 2 -> GrpRow(2, "hourly", -17, TRUE)
                        [] OTHER -> GrpRow(a, "daily", -18, FALSE)]
    /\ alert_checks = <<>> /\ alert_triggers = <<>> /\ evlog = <<>> /\ faults = 0

\* the location groups of the loaded rows, in order of first appearance
RECURSIVE GroupRows(_, _)
GroupRows(rows, groups) ==
    IF rows = <<>> THEN groups
    ELSE LET r == Head(rows)
             hit == {g \in 1..Len(groups) :
                        /\ groups[g].latitude = r.latitude
                        /\ groups[g].longitude = r.longitude}
         IN  IF hit = {}
             THEN GroupRows(Tail(rows),
                      Append(groups, [latitude |-> r.latitude,
                                      longitude |-> r.longitude, alerts |-> <<r>>]))
             ELSE LET g == CHOOSE x \in hit : TRUE
                  IN  GroupRows(Tail(rows),
                          [groups EXCEPT ![g].alerts = Append(@, r)])

\* checkAlerts up to the loop over the groups: the rows are read once, with
\* the last_triggered they have at that moment
CheckAlertsGrouped(step, loadThrows) ==
    /\ pc = "idle" /\ cycle < MaxCycles
    /\ cycle = 0 => step = 0
    /\ loadThrows => faults < MaxFaults
    /\ faults' = IF loadThrows THEN faults + 1 ELSE faults
    /\ now' = now + step
    /\ cycle' = cycle + 1
    /\ LET ids == Ascending({a \in GrpAlerts : alerts[a].active})
           rows == [i \in 1..Len(ids) |-> alerts[ids[i]]]
       IN  IF loadThrows \/ Len(rows) = 0
           THEN UNCHANGED <<pc, queue>>
           ELSE pc' = "running" /\ queue' = GroupRows(rows, <<>>)
    /\ UNCHANGED <<alerts, alert_checks, alert_triggers, evlog>>

\* what the loop body does for one alert of a group; weather is Null when
\* fetchWeatherData returned null, else the temperature it reports
GroupedEntry(alert, weather, mail, updateThrows) ==
    LET fetched == weather.k # "null"
        weatherValue == weather
        checked == fetched /\ weatherValue.k # "undefined"
        met == checked /\ isConditionMetGrouped(weatherValue, alert.condition_type,
                                                alert.threshold_value)
        gate == met /\ shouldSend(alert.last_triggered, alert.notification_frequency, now)
        email == IF gate /\ alert.notification_emails THEN mail ELSE "none"
    IN  [ alert_id |-> alert.id, cycle |-> cycle, time |-> now,
          freq |-> alert.notification_frequency, value |-> weather,
          fetched |-> fetched, met |-> met, logged |-> checked,
          persistent |-> met,
          gate |-> IF met THEN BoolStr(gate) ELSE "na",
          email |-> email, sms |-> "none", trigger |-> 0,
          updated |-> (email = "ok" /\ ~updateThrows) ]

\* one iteration of the loop over the location groups
ProcessGroup(weather, mail, updateThrows) ==
    /\ pc = "running" /\ Len(queue) > 0
    /\ updateThrows # 0 => faults < MaxFaults
    /\ faults' = IF updateThrows # 0 THEN faults + 1 ELSE faults
    /\ LET group == Head(queue)
           entries == [i \in 1..Len(group.alerts) |->
                          GroupedEntry(group.alerts[i], weather,
                                       mail[group.alerts[i].id],
                                       updateThrows = group.alerts[i].id)]
       IN  /\ evlog' = evlog \o entries
           /\ alerts' = [a \in GrpAlerts |->
                           IF \E i \in 1..Len(entries) :
                                 entries[i].alert_id = a /\ entries[i].updated
                           THEN [alerts[a] EXCEPT !.last_triggered = <<now>>]
                           ELSE alerts[a]]
    /\ queue' = Tail(queue)
    /\ UNCHANGED <<now, cycle, pc, alert_checks, alert_triggers>>

GrpWeather == {Null, Undefined, Num(3400), Num(3600)}

GrpStart  ==
    /\ \E st \in TickSteps, t \in BOOLEAN : CheckAlertsGrouped(st, t)
    /\ UNCHANGED <<harnessVars, batVars>>
GrpGroup  ==
    /\ \E w \in GrpWeather, mail \in [GrpAlerts -> SendOutcomes],
          u \in GrpAlerts \cup {0} : ProcessGroup(w, mail, u)
    /\ UNCHANGED <<harnessVars, batVars>>
GrpFinish == FinishCycle /\ UNCHANGED <<harnessVars, batVars>>

InitGrouped == GrpInit /\ EvalIdle /\ FreqIdle /\ PersIdle /\ BatIdle /\ CacheIdle
NextGrouped == GrpStart \/ GrpGroup \/ GrpFinish
SpecGrouped == InitGrouped /\ [][NextGrouped]_vars

(***************************************************************************)
(* SpecBatched: part_019:823-925, checkAlerts in parallel batches, with    *)
(* the cooldown cache (517-530) and sendEmailNotification (605-810).  The  *)
(* notification is handed to setImmediate and not awaited: it is a task of *)
(* its own, which outlives the batch and the cycle.  getCachedField and    *)
(* getCachedWeather are taken by their results.  The evaluations of a     *)
(* batch and the notifications run concurrently, so here the history evlog *)
(* is a set of entries, one per (kind, alert, cycle).                      *)
(***************************************************************************)
MaxTicks   == 1      \* times the clock moves in one behaviour
BATCH_SIZE == 10
ALERT_COOLDOWN == 60 * 60 * 1000

BatAlerts  == {1, 2}
BatSteps   == {30 * MINUTE, HOUR}
\* the observation resolved for the alert: Null when the field or the
\* weather lookup gave nothing, Undefined when the metric is absent
BatValues  == {Null, Undefined, Num(3400), Num(3600)}

BatRow(id) ==
    [ id |-> id, field_id |-> id, alert_type |-> "temperature",
      condition_type |-> "greater_than", threshold_value |-> Num(3500),
      notification_emails |-> TRUE, active |-> TRUE, email_notification |-> TRUE,
      last_triggered |-> <<>> ]

\* the clock starts at a positive time: Date.now() is never 0
BatInit ==
    /\ now = DAY /\ cycle = 0 /\ pc = "idle" /\ queue = <<>>
    /\ alerts = [a \in BatAlerts |-> BatRow(a)]
    /\ alert_checks = <<>> /\ alert_triggers = <<>> /\ evlog = {} /\ faults = 0
    /\ alertCooldownCache = [a \in BatAlerts |-> <<>>]
    /\ batch = {} /\ tasks = {} /\ ticks = 0

\* part_019:517 isAlertInCooldown(alertId)
isAlertInCooldown(alertId) ==
    LET lastTriggered == alertCooldownCache[alertId] IN
    IF Len(lastTriggered) = 0 \/ lastTriggered[1] = 0
    THEN FALSE
    ELSE now - lastTriggered[1] < ALERT_COOLDOWN

\* alerts.slice(i, i + BATCH_SIZE) and what is left after it
Slice_whole(rows) == rows
Slice(rows) ==
    SubSeq(rows, 1, IF Len(rows) < BATCH_SIZE THEN Len(rows) ELSE BATCH_SIZE)
Rest(rows) ==
    IF Len(rows) <= BATCH_SIZE THEN <<>> ELSE SubSeq(rows, BATCH_SIZE + 1, Len(rows))

\* batch.map(async (alert) => ...) runs every callback up to its first
\* await before any of them goes on: the cooldown of each alert of the batch
\* is looked up then.  Pending(slice): ids that passed; Cooling(slice): the
\* history entries of those that returned false at once.
Pending(slice) ==
    {slice[i].id : i \in {k \in 1..Len(slice) : ~isAlertInCooldown(slice[k].id)}}
CoolingEntry(id, c) ==
    [ kind |-> "eval", alert_id |-> id, cycle |-> c, time |-> now,
      value |-> Null, cooling |-> TRUE, fetched |-> FALSE,
      met |-> FALSE, email |-> "none", sms |-> "none" ]
Cooling(slice, c) ==
    {CoolingEntry(slice[i].id, c) :
        i \in {k \in 1..Len(slice) : isAlertInCooldown(slice[k].id)}}

\* part_019:921 catch (err) { console.error(...) }: an error of the cycle
\* ends the cycle and nothing else; the timers of part_019:963-973 go on
MonitorErrorCaught_rethrown == "crashed"
MonitorErrorCaught == "idle"

\* checkAlerts up to the first batch
CheckAlertsBatched(loadThrows) ==
    /\ pc = "idle" /\ cycle < MaxCycles
    /\ loadThrows => faults < MaxFaults
    /\ faults' = IF loadThrows THEN faults + 1 ELSE faults
    /\ cycle' = cycle + 1
    /\ LET ids == Ascending({a \in DOMAIN alerts :
                                alerts[a].active /\ alerts[a].email_notification})
           rows == [i \in 1..Len(ids) |-> alerts[ids[i]]]
       IN  IF loadThrows
           THEN pc' = MonitorErrorCaught /\ UNCHANGED <<queue, batch, evlog>>
           ELSE IF Len(rows) = 0
           THEN UNCHANGED <<pc, queue, batch, evlog>>
           ELSE /\ pc' = "running"
                /\ batch' = Pending(Slice(rows))
                /\ evlog' = evlog \cup Cooling(Slice(rows), cycle + 1)
                /\ queue' = Rest(rows)
    /\ UNCHANGED <<now, alerts, alert_checks, alert_triggers,
                   alertCooldownCache, tasks, ticks>>

\* the body of batch.map for one alert of the batch, after the cooldown test
EvaluateAlert(a, value) ==
    /\ pc = "running" /\ a \in batch
    /\ LET alert == alerts[a]
           fetched == value.k # "null"
           \* !weather[p] && weather[p] !== 0
           present == fetched /\ value.k = "num"
           met == present /\ isConditionMetBatched(value, alert.condition_type,
                                                   alert.threshold_value)
       IN  /\ tasks' = IF met
                       THEN tasks \cup {[alert_id |-> a, cycle |-> cycle,
                                         stage |-> "scheduled"]}
                       ELSE tasks
           /\ evlog' = evlog \cup
                 {[ kind |-> "eval", alert_id |-> a, cycle |-> cycle, time |-> now,
                    value |-> value, cooling |-> FALSE, fetched |-> fetched,
                    met |-> met, email |-> "none", sms |-> "none" ]}
    /\ batch' = batch \ {a}
    /\ UNCHANGED <<now, cycle, pc, queue, alerts, alert_checks, alert_triggers,
                   faults, alertCooldownCache, ticks>>

\* Promise.allSettled(batchPromises) returns: next batch, or the cycle ends
BatchSettled ==
    /\ pc = "running" /\ batch = {}
    /\ IF Len(queue) > 0
       THEN /\ batch' = Pending(Slice(queue))
            /\ evlog' = evlog \cup Cooling(Slice(queue), cycle)
            /\ queue' = Rest(queue) /\ pc' = pc
       ELSE pc' = "idle" /\ UNCHANGED <<batch, queue, evlog>>
    /\ UNCHANGED <<now, cycle, alerts, alert_checks, alert_triggers,
                   faults, alertCooldownCache, tasks, ticks>>

\* sendEmailNotification up to the answer of emailTransporter.sendMail
SendMail(task, outcome) ==
    /\ task \in tasks /\ task.stage = "scheduled"
    /\ IF alerts[task.alert_id].notification_emails
       THEN /\ evlog' = evlog \cup
                  {[ kind |-> "send", alert_id |-> task.alert_id, cycle |-> task.cycle,
                     time |-> now, email |-> outcome, sms |-> "none" ]}
            /\ tasks' = IF outcome = "ok"
                        THEN (tasks \ {task}) \cup {[task EXCEPT !.stage = "sent"]}
                        ELSE tasks \ {task}
       ELSE evlog' = evlog /\ tasks' = tasks \ {task}
    /\ UNCHANGED <<now, cycle, pc, queue, alerts, alert_checks, alert_triggers,
                   faults, alertCooldownCache, batch, ticks>>

\* the rest of sendEmailNotification after a delivered mail:
\* updateAlertTriggered (which catches its own error), then setAlertCooldown
AfterSend(task, updateThrows) ==
    /\ task \in tasks /\ task.stage = "sent"
    /\ updateThrows => faults < MaxFaults
    /\ faults' = IF updateThrows THEN faults + 1 ELSE faults
    /\ alerts' = IF updateThrows THEN alerts
                 ELSE [alerts EXCEPT ![task.alert_id].last_triggered = <<now>>]
    /\ alertCooldownCache' = [alertCooldownCache EXCEPT ![task.alert_id] = <<now>>]
    /\ tasks' = tasks \ {task}
    /\ UNCHANGED <<now, cycle, pc, queue, alert_checks, alert_triggers, evlog,
                   batch, ticks>>

\* time passes
Tick(step) ==
    /\ ticks < MaxTicks
    /\ ticks' = ticks + 1
    /\ now' = now + step
    /\ UNCHANGED <<cycle, pc, queue, alerts, alert_checks, alert_triggers, evlog,
                   faults, alertCooldownCache, batch, tasks>>

BatStart    == (\E t \in BOOLEAN : CheckAlertsBatched(t)) /\ UNCHANGED harnessVars
BatEvaluate ==
    /\ \E a \in BatAlerts, v \in BatValues : EvaluateAlert(a, v)
    /\ UNCHANGED harnessVars
BatSettled  == BatchSettled /\ UNCHANGED harnessVars
BatSend     ==
    /\ \E t \in tasks, o \in SendOutcomes : SendMail(t, o)
    /\ UNCHANGED harnessVars
BatAfter    ==
    /\ \E t \in tasks, u \in BOOLEAN : AfterSend(t, u)
    /\ UNCHANGED harnessVars
BatTick     == (\E st \in BatSteps : Tick(st)) /\ UNCHANGED harnessVars

InitBatched == BatInit /\ EvalIdle /\ FreqIdle /\ PersIdle /\ CacheIdle
NextBatched == BatStart \/ BatEvaluate \/ BatSettled \/ BatSend \/ BatAfter \/ BatTick
SpecBatched == InitBatched /\ [][NextBatched]_vars

(***************************************************************************)
(* SpecBatching: the batched checkAlerts of part_019:823-925 over more     *)
(* alerts than one batch holds, so that a cycle runs several batches.  The *)
(* observations are below every threshold: no notification is scheduled.   *)
(***************************************************************************)
NumAlerts == 12
ManyAlerts == 1..NumAlerts
BchValues == {Num(3400)}

BchInit ==
    /\ now = DAY /\ cycle = 0 /\ pc = "idle" /\ queue = <<>>
    /\ alerts = [a \in ManyAlerts |-> BatRow(a)]
    /\ alert_checks = <<>> /\ alert_triggers = <<>> /\ evlog = {} /\ faults = 0
    /\ alertCooldownCache = [a \in ManyAlerts |-> <<>>]
    /\ batch = {} /\ tasks = {} /\ ticks = 0

BchStart    == (\E t \in BOOLEAN : CheckAlertsBatched(t)) /\ UNCHANGED harnessVars
BchEvaluate ==
    /\ \E a \in ManyAlerts, v \in BchValues : EvaluateAlert(a, v)
    /\ UNCHANGED harnessVars
BchSettled  == BatchSettled /\ UNCHANGED harnessVars

InitBatching == BchInit /\ EvalIdle /\ FreqIdle /\ PersIdle /\ CacheIdle
NextBatching == BchStart \/ BchEvaluate \/ BchSettled
SpecBatching == InitBatching /\ [][NextBatching]_vars
\* the interval timer of part_019:969 fires again and again
FairBatching == SpecBatching /\ WF_vars(BchStart)

(***************************************************************************)
(* SpecSilent: the same cycles against an upstream that may take a request *)
(* and never answer it.  getCachedWeather / fetchCurrentWeather /          *)
(* getTemperature call axios.get without a timeout option (axios' default  *)
(* is no timeout), so the await behind the request ends only when the      *)
(* upstream answers or the connection fails.                               *)
(***************************************************************************)
MaxSilent == 1
SilentRequests == {e \in evlog : e.kind = "silent"}
Silent(a) == \E e \in SilentRequests : e.alert_id = a /\ e.cycle = cycle

\* the upstream takes the request made for alert a and will never answer it
UpstreamSilent(a) ==
    /\ pc = "running" /\ a \in batch /\ ~Silent(a)
    /\ Cardinality(SilentRequests) < MaxSilent
    /\ evlog' = evlog \cup {[kind |-> "silent", alert_id |-> a, cycle |-> cycle]}
    /\ UNCHANGED <<now, cycle, pc, queue, alerts, alert_checks, alert_triggers,
                   faults, alertCooldownCache, batch, tasks, ticks>>

SilSilent   == (\E a \in ManyAlerts : UpstreamSilent(a)) /\ UNCHANGED harnessVars
\* the evaluation of alert a goes on once its request is answered
SilEvaluate(a) ==
    /\ ~Silent(a)
    /\ \E v \in BchValues : EvaluateAlert(a, v)
    /\ UNCHANGED harnessVars
SilAnswered == \E a \in ManyAlerts : SilEvaluate(a)

NextSilent == BchStart \/ SilSilent \/ SilAnswered \/ BchSettled
SpecSilent == InitBatching /\ [][NextSilent]_vars
\* the timer fires, every answered request lets its evaluation go on, and
\* the event loop resumes checkAlerts when the batch has settled
FairSilent ==
    /\ SpecSilent /\ WF_vars(BchStart) /\ WF_vars(BchSettled)
    /\ \A a \in ManyAlerts : WF_vars(SilEvaluate(a))

(***************************************************************************)
(* SpecShutdown: the batched monitor of SpecBatched with the SIGTERM       *)
(* handler of part_019:955-960 (setupGracefulShutdown of part_017:507-534  *)
(* does the same and also ends the database pool).  The handler does not   *)
(* look at the notifications in flight; tasks keeps them as they were at   *)
(* the exit.                                                               *)
(***************************************************************************)
\* process.on('SIGTERM'): emailTransporter.close(); process.exit(0)
Sigterm ==
    /\ pc # "exited"
    /\ pc' = "exited"
    /\ UNCHANGED <<now, cycle, queue, alerts, alert_checks, alert_triggers, evlog,
                   faults, alertCooldownCache, batch, tasks, ticks>>

\* nothing runs in a process that has exited
ShtSend   == pc # "exited" /\ BatSend
ShtAfter  == pc # "exited" /\ BatAfter
ShtSignal == Sigterm /\ UNCHANGED harnessVars

NextShutdown == BatStart \/ BatEvaluate \/ BatSettled \/ ShtSend \/ ShtAfter \/ ShtSignal
SpecShutdown == InitBatched /\ [][NextShutdown]_vars

(***************************************************************************)
(* SpecBoot: the start of the monitor process (part_000:26-34, the same    *)
(* block as server.js:55-63): one db.query('SELECT 1'); when it rejects,   *)
(* the catch calls process.exit(1).  After a successful test the cycles of *)
(* the monitor run as above.                                               *)
(***************************************************************************)
BootInit ==
    /\ now = DAY /\ cycle = 0 /\ pc = "starting" /\ queue = <<>>
    /\ alerts = [a \in ManyAlerts |-> BatRow(a)]
    /\ alert_checks = <<>> /\ alert_triggers = <<>> /\ evlog = {} /\ faults = 0
    /\ alertCooldownCache = [a \in ManyAlerts |-> <<>>]
    /\ batch = {} /\ tasks = {} /\ ticks = 0

\* the database connection test; faults counts the queries that failed
ConnectionTest(fails) ==
    /\ pc = "starting"
    /\ faults' = IF fails THEN faults + 1 ELSE faults
    /\ pc' = IF fails THEN "halted" ELSE "idle"
    /\ UNCHANGED <<now, cycle, queue, alerts, alert_checks, alert_triggers, evlog,
                   alertCooldownCache, batch, tasks, ticks>>

BootTest == (\E f \in BOOLEAN : ConnectionTest(f)) /\ UNCHANGED harnessVars

InitBoot == BootInit /\ EvalIdle /\ FreqIdle /\ PersIdle /\ CacheIdle
NextBoot == BootTest \/ BchStart \/ BchEvaluate \/ BchSettled
SpecBoot == InitBoot /\ [][NextBoot]_vars

(***************************************************************************)
(* SpecFirst: part_019:50-78, the first checkAlerts: one loop over the     *)
(* alerts inside a single try, with sendEmailNotification of part_019:19   *)
(* and the provider of part_014 (which answers null when the call fails).  *)
(***************************************************************************)
FstAlerts == {1, 2, 3}
\* the row of table fields read for the alert: well formed, absent or
\* without location, a location that is not JSON, or the query throws
FieldStates == {"ok", "missing", "malformed", "queryThrows"}
\* the provider's answer for the metric: Null for no answer at all
FstValues == {Null, Num(0), Num(3400), Num(3600)}

\* part_019:40 isConditionMet(value, condition, threshold)
isConditionMetFirst(value, condition, threshold) ==
    CASE condition = "greater_than" -> JsLt(threshold, value)
      [] condition = "less_than"    -> JsLt(value, threshold)
      [] condition = "equal_to"     ->
            value.k = threshold.k /\ value.k # "nan" /\ value.n = threshold.n
      [] OTHER                      -> FALSE

FstRow(id) ==
    [ id |-> id, field_id |-> id, active |-> TRUE, alert_type |-> "temperature",
      condition_type |-> "greater_than", threshold_value |-> Num(3500),
      notification_emails |-> TRUE ]

FstInit ==
    /\ now = 0 /\ cycle = 0 /\ pc = "idle" /\ queue = <<>>
    /\ alerts = [a \in FstAlerts |-> FstRow(a)]
    /\ alert_checks = <<>> /\ alert_triggers = <<>> /\ evlog = <<>> /\ faults = 0

\* checkAlerts up to the loop
CheckAlertsFirst(loadThrows) ==
    /\ pc = "idle" /\ cycle < MaxCycles
    /\ loadThrows => faults < MaxFaults
    /\ faults' = IF loadThrows THEN faults + 1 ELSE faults
    /\ cycle' = cycle + 1
    /\ IF loadThrows
       THEN pc' = pc /\ queue' = <<>>
       ELSE /\ pc' = "running"
            /\ LET ids == Ascending({a \in FstAlerts : alerts[a].active})
               IN  queue' = [i \in 1..Len(ids) |-> alerts[ids[i]]]
    /\ UNCHANGED <<now, alerts, alert_checks, alert_triggers, evlog>>

\* does the loop body throw?  db.query rejects, or JSON.parse(field.location)
\* throws; nothing inside the loop catches it
LoopThrows(fieldState) == fieldState \in {"malformed", "queryThrows"}

\* one iteration of the loop; an exception leaves the loop for the catch of
\* checkAlerts, and the rows not yet visited stay unvisited
IterateFirst(fieldState, value, mail) ==
    /\ pc = "running" /\ Len(queue) > 0
    /\ fieldState = "queryThrows" => faults < MaxFaults
    /\ faults' = IF fieldState = "queryThrows" THEN faults + 1 ELSE faults
    /\ LET alert == Head(queue)
           fetched == fieldState = "ok" /\ value.k # "null"
           \* !weather[alert.alert_type]
           present == fetched /\ value.k = "num" /\ value.n # 0
           met == present /\ isConditionMetFirst(value, alert.condition_type,
                                                 alert.threshold_value)
           email == IF met /\ alert.notification_emails THEN mail ELSE "none"
       IN  evlog' = Append(evlog,
                 [ alert_id |-> alert.id, cycle |-> cycle, time |-> now,
                   value |-> value, threw |-> LoopThrows(fieldState),
                   fetched |-> fetched, met |-> met,
                   email |-> email, sms |-> "none" ])
    /\ IF LoopThrows(fieldState)
       THEN pc' = "idle" /\ queue' = Tail(queue)
       ELSE pc' = pc /\ queue' = Tail(queue)
    /\ UNCHANGED <<now, cycle, alerts, alert_checks, alert_triggers>>

FstStart   == (\E t \in BOOLEAN : CheckAlertsFirst(t)) /\ UNCHANGED <<harnessVars, batVars>>
FstIterate ==
    /\ \E fs \in FieldStates, v \in FstValues, m \in SendOutcomes :
          IterateFirst(fs, v, m)
    /\ UNCHANGED <<harnessVars, batVars>>
FstFinish  == FinishCycle /\ UNCHANGED <<harnessVars, batVars>>

InitFirst == FstInit /\ EvalIdle /\ FreqIdle /\ PersIdle /\ BatIdle /\ CacheIdle
NextFirst == FstStart \/ FstIterate \/ FstFinish
SpecFirst == InitFirst /\ [][NextFirst]_vars

(***************************************************************************)
(* SpecZero: the sequential checkAlerts over an alert that asks for a      *)
(* value below 5.00 (alert 1) next to one that asks for a value above      *)
(* 35.00 (alert 2).  The loops of part_018:225-239 and part_017:430-446    *)
(* test the observation the same way: !weather[alert.alert_type].          *)
(***************************************************************************)
ZeroInit ==
    /\ now = 0 /\ cycle = 0 /\ pc = "idle" /\ queue = <<>>
    /\ alerts = [a \in FstAlerts |->
                   CASE a = 1 -> [FstRow(1) EXCEPT !.condition_type = "less_than",
                                                   !.threshold_value = Num(500)]
                     [] a = 2 -> FstRow(2)
                     [] OTHER -> [FstRow(a) EXCEPT !.active = FALSE]]
    /\ alert_checks = <<>> /\ alert_triggers = <<>> /\ evlog = <<>> /\ faults = 0

InitZero == ZeroInit /\ EvalIdle /\ FreqIdle /\ PersIdle /\ BatIdle /\ CacheIdle
SpecZero == InitZero /\ [][NextFirst]_vars

(***************************************************************************)
(* SpecCache and SpecLimiter: the weather cache and the rate limiter of    *)
(* the batched monitor (part_019:473-503, 560-590, 928-952).               *)
(***************************************************************************)
WEATHER_CACHE_TTL == 10 * 60 * 1000
MaxCacheCalls == 3   \* calls of getCachedWeather and sweeps in one behaviour
MaxClockSteps == 2   \* times the clock moves in one behaviour

\* cache keys: weather_<lat>_<lon>, coordinates rounded to 3 decimals
CacheKeys   == {"weather_-17.800_31.050", "weather_-18.900_32.600"}
\* current_weather objects, told apart by their temperature
WeatherData == {Num(3400), Num(3600)}
CacheSteps  == {5 * MINUTE, 11 * MINUTE, 30 * MINUTE, 61 * MINUTE}
FIELD_CACHE_TTL == 30 * 60 * 1000
\* ids of table fields, and the rows SELECT * FROM fields may return for one
FieldIds  == {1}
FieldRows == {[k |-> "object", n |-> 1], [k |-> "object", n |-> 2]}
\* Date.now() when the module is loaded
StartTime == DAY

\* mutant: an entry is served whatever its age
isFresh_always(cached, ttl, tnow) == Len(cached) > 0

\* the test of both lookups: cached && Date.now() - cached.timestamp < TTL
isFresh(cached, ttl, tnow) ==
    Len(cached) > 0 /\ tnow - cached[1].timestamp < ttl

\* mutant: a limiter that never refuses
canMakeWeatherApiCall_unlimited(limiter, tnow) ==
    [ granted |-> TRUE,
      limiter |-> [limiter EXCEPT !.calls = limiter.calls + 1] ]

\* canMakeWeatherApiCall(): the limiter after the call, and the answer
canMakeWeatherApiCall(limiter, tnow) ==
    LET reset   == tnow - limiter.lastReset > limiter.window
        calls0  == IF reset THEN 0 ELSE limiter.calls
        last0   == IF reset THEN tnow ELSE limiter.lastReset
        granted == ~(calls0 >= limiter.limit)
    IN  [ granted |-> granted,
          limiter |-> [limiter EXCEPT !.calls = IF granted THEN calls0 + 1 ELSE calls0,
                                      !.lastReset = last0] ]

\* grants, with one more call granted at time tnow
Granted(g, tnow) ==
    IF tnow \in DOMAIN g THEN [g EXCEPT ![tnow] = @ + 1] ELSE g @@ (tnow :> 1)

\* the limiter as the module creates it, after `used` calls in the first window
NewLimiter(used) ==
    [calls |-> used, lastReset |-> StartTime, limit |-> 100, window |-> 60 * 60 * 1000]

CacheInit ==
    /\ now = StartTime /\ ticks = 0 /\ faults = 0
    /\ weatherCache = [k \in CacheKeys |-> <<>>]
    /\ fieldCache = [f \in FieldIds |-> <<>>]
    /\ alertCooldownCache = [a \in BatAlerts |-> <<>>]
    \* no call yet, or 99 calls already made in the first window
    /\ \E used \in {0, 99} : weatherApiLimiter = NewLimiter(used)
    /\ cwLast = <<>> /\ grants = <<>>
    /\ cycle = 0 /\ pc = "idle" /\ queue = <<>> /\ alerts = <<>>
    /\ alert_checks = <<>> /\ alert_triggers = <<>> /\ evlog = <<>>

\* getCachedWeather(latitude, longitude) for the location of key `key`;
\* `upstream` is what fetchCurrentWeather resolves to if it is called:
\* Null when the request failed (part_014 catches and returns null)
getCachedWeather(key, upstream) ==
    /\ faults < MaxCacheCalls
    /\ faults' = faults + 1
    /\ LET cached == weatherCache[key]
           fresh  == isFresh(cached, WEATHER_CACHE_TTL, now)
           lim    == canMakeWeatherApiCall(weatherApiLimiter, now)
           stale  == IF Len(cached) > 0 THEN cached[1].data ELSE Null
       IN  IF fresh
           THEN /\ cwLast' = <<[key |-> key, cached |-> cached, time |-> now,
                               granted |-> "na", upstream |-> "none",
                               result |-> cached[1].data]>>
                /\ UNCHANGED <<weatherCache, weatherApiLimiter, grants>>
           ELSE /\ weatherApiLimiter' = lim.limiter
                /\ IF ~lim.granted
                   THEN /\ cwLast' = <<[key |-> key, cached |-> cached, time |-> now,
                                       granted |-> "false", upstream |-> "none",
                                       result |-> stale]>>
                        /\ UNCHANGED <<weatherCache, grants>>
                   ELSE /\ grants' = Granted(grants, now)
                        /\ weatherCache' =
                              IF upstream.k = "null" THEN weatherCache
                              ELSE [weatherCache EXCEPT ![key] =
                                       <<[data |-> upstream, timestamp |-> now]>>]
                        /\ cwLast' = <<[key |-> key, cached |-> cached, time |-> now,
                                       granted |-> "true",
                                       upstream |-> IF upstream.k = "null"
                                                    THEN "failed" ELSE "ok",
                                       result |-> upstream]>>
    /\ UNCHANGED <<now, ticks, fieldCache, alertCooldownCache>>

\* getCachedField(fieldId); `row` is what the query returns if it is made:
\* a row, Undefined for an empty result, Null when the query throws
getCachedField(fieldId, row) ==
    /\ faults < MaxCacheCalls
    /\ faults' = faults + 1
    /\ LET cached == fieldCache[fieldId]
           fresh  == isFresh(cached, FIELD_CACHE_TTL, now)
       IN  IF fresh
           THEN /\ cwLast' = <<[key |-> "field", cached |-> cached, time |-> now,
                               granted |-> "na", upstream |-> "none",
                               result |-> cached[1].data]>>
                /\ fieldCache' = fieldCache
           ELSE /\ fieldCache' =
                      IF row.k = "object"
                      THEN [fieldCache EXCEPT ![fieldId] =
                               <<[data |-> row, timestamp |-> now]>>]
                      ELSE fieldCache
                /\ cwLast' = <<[key |-> "field", cached |-> cached, time |-> now,
                               granted |-> "na",
                               upstream |-> IF row.k = "null" THEN "failed" ELSE "ok",
                               result |-> row]>>
    /\ UNCHANGED <<now, ticks, weatherCache, weatherApiLimiter, grants,
                   alertCooldownCache>>

\* setAlertCooldown(alertId)
setAlertCooldown(alertId) ==
    /\ faults < MaxCacheCalls
    /\ faults' = faults + 1
    /\ alertCooldownCache' = [alertCooldownCache EXCEPT ![alertId] = <<now>>]
    /\ UNCHANGED <<now, ticks, cacheVars>>

\* mutant: a sweep that empties the three caches
cleanupCache_all ==
    /\ faults < MaxCacheCalls
    /\ faults' = faults + 1
    /\ fieldCache' = [f \in FieldIds |-> <<>>]
    /\ weatherCache' = [k \in CacheKeys |-> <<>>]
    /\ alertCooldownCache' = [a \in BatAlerts |-> <<>>]
    /\ UNCHANGED <<now, ticks, weatherApiLimiter, cwLast, grants>>

\* cleanupCache(): the sweep of the field, weather and cooldown caches
cleanupCache ==
    /\ faults < MaxCacheCalls
    /\ faults' = faults + 1
    /\ fieldCache' =
          [f \in FieldIds |->
              IF Len(fieldCache[f]) > 0
                 /\ now - fieldCache[f][1].timestamp > FIELD_CACHE_TTL
              THEN <<>> ELSE fieldCache[f]]
    /\ weatherCache' =
          [k \in CacheKeys |->
              IF Len(weatherCache[k]) > 0
                 /\ now - weatherCache[k][1].timestamp > WEATHER_CACHE_TTL
              THEN <<>> ELSE weatherCache[k]]
    /\ alertCooldownCache' =
          [a \in BatAlerts |->
              IF Len(alertCooldownCache[a]) > 0
                 /\ now - alertCooldownCache[a][1] > ALERT_COOLDOWN
              THEN <<>> ELSE alertCooldownCache[a]]
    /\ UNCHANGED <<now, ticks, weatherApiLimiter, cwLast, grants>>

\* time passes
ClockStep(step) ==
    /\ ticks < MaxClockSteps
    /\ ticks' = ticks + 1
    /\ now' = now + step
    /\ UNCHANGED <<faults, cacheVars, alertCooldownCache>>

CacheRest == <<cycle, pc, queue, alerts, alert_checks, alert_triggers, evlog,
               batch, tasks, evalVars, freqVars, persVars>>

CchGet   ==
    /\ \E k \in CacheKeys, w \in WeatherData \cup {Null} : getCachedWeather(k, w)
    /\ UNCHANGED CacheRest
CchField ==
    /\ \E f \in FieldIds, r \in FieldRows \cup {Undefined, Null} : getCachedField(f, r)
    /\ UNCHANGED CacheRest
CchCool  == (\E a \in BatAlerts : setAlertCooldown(a)) /\ UNCHANGED CacheRest
CchSweep == cleanupCache /\ UNCHANGED CacheRest
CchClock == (\E st \in CacheSteps : ClockStep(st)) /\ UNCHANGED CacheRest

InitCache == CacheInit /\ EvalIdle /\ FreqIdle /\ PersIdle
                /\ batch = {} /\ tasks = {}
NextCache == CchGet \/ CchField \/ CchCool \/ CchSweep \/ CchClock
SpecCache == InitCache /\ [][NextCache]_vars

\* ---- the limiter alone, called again and again
LimSteps == {2 * MINUTE, 59 * MINUTE}

LimInit ==
    /\ now = StartTime /\ ticks = 0 /\ faults = 0
    /\ weatherCache = <<>> /\ fieldCache = <<>> /\ weatherApiLimiter = NewLimiter(0)
    /\ cwLast = <<>> /\ grants = <<>>
    /\ cycle = 0 /\ pc = "idle" /\ queue = <<>> /\ alerts = <<>>
    /\ alert_checks = <<>> /\ alert_triggers = <<>> /\ evlog = <<>>

\* one call of canMakeWeatherApiCall(); cwLast keeps its answer
Acquire ==
    /\ LET lim == canMakeWeatherApiCall(weatherApiLimiter, now)
       IN  /\ weatherApiLimiter' = lim.limiter
           /\ grants' = IF lim.granted THEN Granted(grants, now) ELSE grants
           /\ cwLast' = <<[time |-> now, granted |-> lim.granted,
                           before |-> weatherApiLimiter]>>
    /\ UNCHANGED <<now, ticks, faults, weatherCache, fieldCache, alertCooldownCache>>

LimAcquire == Acquire /\ UNCHANGED CacheRest
LimClock   == (\E st \in LimSteps : ClockStep(st)) /\ UNCHANGED CacheRest

InitLimiter == LimInit /\ EvalIdle /\ FreqIdle /\ PersIdle
                  /\ alertCooldownCache = <<>> /\ batch = {} /\ tasks = {}
NextLimiter == LimAcquire \/ LimClock
SpecLimiter == InitLimiter /\ [][NextLimiter]_vars

(***************************************************************************)
(* SpecStore: createAlert and updateAlert of part_003:158-268 and 272-392  *)
(* against the alerts table.  alerts is the table (row i has id i), evlog  *)
(* the requests made so far with the status answered.  The body carries    *)
(* the fields the threshold checks read; the other required fields are     *)
(* present and the field exists.                                           *)
(***************************************************************************)
MaxRequests == 2
AlertIds == 1..MaxRequests
ConditionTypes == {"greater_than", "between"}
BodyThresholds == {Undefined, Num(0), Num(1000)}
BodySecondThresholds == {Undefined, Null, Num(0), Num(500), Num(2000)}
Bodies ==
    [ conditionType : ConditionTypes, thresholdValue : BodyThresholds,
      secondThresholdValue : BodySecondThresholds ]

\* x || null
OrNull(x) ==
    IF x.k \in {"undefined", "null", "nan"} \/ (x.k = "num" /\ x.n = 0)
    THEN Null ELSE x

\* the checks of the body before the statement runs
\* (part_003:176-199, the same at 303-325)
validateBody(body) ==
    IF body.thresholdValue.k = "undefined" THEN "400"
    ELSE IF body.conditionType = "between" /\ body.secondThresholdValue.k = "undefined"
    THEN "400"
    ELSE "ok"

\* the columns written by INSERT INTO alerts / UPDATE alerts SET
StoredRow(id, body) ==
    [ id |-> id, condition_type |-> body.conditionType,
      threshold_value |-> body.thresholdValue,
      second_threshold_value |-> OrNull(body.secondThresholdValue) ]

createAlert(body) ==
    /\ Len(evlog) < MaxRequests
    /\ LET status == IF validateBody(body) = "ok" THEN "201" ELSE "400" IN
        /\ alerts' = IF status = "201"
                     THEN Append(alerts, StoredRow(Len(alerts) + 1, body))
                     ELSE alerts
        /\ evlog' = Append(evlog, [kind |-> "createAlert", alert_id |-> Len(alerts) + 1,
                                   body |-> body, status |-> status])
    /\ UNCHANGED <<now, cycle, pc, queue, alert_checks, alert_triggers, faults>>

updateAlert(alertId, body) ==
    /\ Len(evlog) < MaxRequests
    /\ LET status == IF alertId \notin 1..Len(alerts) THEN "404"
                      ELSE IF validateBody(body) = "ok" THEN "200" ELSE "400" IN
        /\ alerts' = IF status = "200"
                     THEN [alerts EXCEPT ![alertId] = StoredRow(alertId, body)]
                     ELSE alerts
        /\ evlog' = Append(evlog, [kind |-> "updateAlert", alert_id |-> alertId,
                                   body |-> body, status |-> status])
    /\ UNCHANGED <<now, cycle, pc, queue, alert_checks, alert_triggers, faults>>

StoCreate == (\E b \in Bodies : createAlert(b)) /\ UNCHANGED <<harnessVars, batVars>>
StoUpdate ==
    /\ \E a \in AlertIds, b \in Bodies : updateAlert(a, b)
    /\ UNCHANGED <<harnessVars, batVars>>

InitStore == MonIdle /\ EvalIdle /\ FreqIdle /\ PersIdle /\ BatIdle /\ CacheIdle
NextStore == StoCreate \/ StoUpdate
SpecStore == InitStore /\ [][NextStore]_vars

(***************************************************************************)
(* SpecPatch: updateAlert of part_002:242-380, which builds its UPDATE     *)
(* from the fields it finds after destructuring req.body.  alerts is the   *)
(* table, holding one alert; evlog the requests made so far.  A field of   *)
(* a body is <<>> when the request omits it and <<v>> when it carries v.   *)
(***************************************************************************)
PatchFields ==
    {"condition_type", "threshold_value", "duration_hours", "active",
     "owner_type", "owner_id", "name"}
PatchIds == {1, 2}

\* the alert stored before the first request
PatchRow ==
    [f \in PatchFields |->
        CASE f = "condition_type"  -> "less_than"
          [] f = "threshold_value" -> Num(500)
          [] f = "duration_hours"  -> 2
          [] f = "active"          -> TRUE
          [] f = "owner_type"      -> "agronomist"
          [] f = "owner_id"        -> 7
          [] f = "name"            -> "frost"]

\* what a request may carry for each field
PatchBodies ==
    [ condition_type : {<<>>, <<"equal_to">>},
      threshold_value : {<<>>, <<Num(1000)>>},
      duration_hours : {<<>>, <<3>>},
      active : {<<>>, <<FALSE>>},
      owner_type : {<<>>, <<"insurer">>},
      owner_id : {<<>>},
      name : {<<>>, <<"heat">>} ]

\* const { condition_type = 'greater_than', threshold_value,
\*         duration_hours = 0, active, owner_type = 'farmer', owner_id = 0,
\*         name = '' } = req.body: a default stands in for an omitted field
Destructure(body) ==
    [f \in PatchFields |->
        IF body[f] # <<>> THEN body[f]
        ELSE CASE f = "condition_type" -> <<"greater_than">>
               [] f = "duration_hours" -> <<0>>
               [] f = "owner_type"     -> <<"farmer">>
               [] f = "owner_id"       -> <<0>>
               [] f = "name"           -> <<"">>
               [] OTHER                -> <<>>]

updateAlertOptimized(alertId, body) ==
    /\ Len(evlog) < MaxRequests
    /\ LET given == Destructure(body)
           \* if (x !== undefined) updateFields.push('x = ?')
           updateFields == {f \in PatchFields : given[f] # <<>>}
           status == IF alertId \notin 1..Len(alerts) THEN "404"
                     ELSE IF updateFields = {} THEN "400"
                     ELSE "200"
       IN  /\ alerts' =
                 IF status = "200"
                 THEN [alerts EXCEPT ![alertId] =
                          [f \in PatchFields |->
                              IF f \in updateFields THEN given[f][1] ELSE @[f]]]
                 ELSE alerts
           /\ evlog' = Append(evlog, [kind |-> "updateAlert", alert_id |-> alertId,
                                      body |-> body, status |-> status])
    /\ UNCHANGED <<now, cycle, pc, queue, alert_checks, alert_triggers, faults>>

PatInit ==
    /\ now = 0 /\ cycle = 0 /\ pc = "idle" /\ queue = <<>>
    /\ alerts = <<PatchRow>>
    /\ alert_checks = <<>> /\ alert_triggers = <<>> /\ evlog = <<>> /\ faults = 0

PatUpdate ==
    /\ \E a \in PatchIds, b \in PatchBodies : updateAlertOptimized(a, b)
    /\ UNCHANGED <<harnessVars, batVars>>

InitPatch == PatInit /\ EvalIdle /\ FreqIdle /\ PersIdle /\ BatIdle /\ CacheIdle
NextPatch == PatUpdate
SpecPatch == InitPatch /\ [][NextPatch]_vars

(***************************************************************************)
(* Properties of the cycles, read off the evaluation history.              *)
(***************************************************************************)
Sent(e)       == e.email = "ok" \/ e.sms = "ok"
Attempted(e)  == e.email # "none" \/ e.sms # "none"
AllFailed(e)  == Attempted(e) /\ ~Sent(e)
SameAlert(i, j) == evlog[i].alert_id = evlog[j].alert_id

\* the evaluations of the alert of evlog[j] before j that sent a notification
PriorTriggers(j) == {i \in 1..(j - 1) : SameAlert(i, j) /\ Sent(evlog[i])}
LastOf(S) == CHOOSE i \in S : \A k \in S : k <= i

\* C1: for frequency 'once', whenever the condition is met and the gate is
\* consulted: with no earlier trigger the gate is true; after a trigger it is
\* true exactly when some check since the last trigger recorded "condition
\* not met" (false on every met cycle until such a reset, true after it).
C1_OnceUntilReset ==
    \A j \in 1..Len(evlog) :
        (evlog[j].freq = "once" /\ evlog[j].gate # "na") =>
            IF PriorTriggers(j) = {}
            THEN evlog[j].gate = "true"
            ELSE (evlog[j].gate = "true") <=>
                     \E k \in (LastOf(PriorTriggers(j)) + 1)..(j - 1) :
                         SameAlert(k, j) /\ evlog[k].logged /\ ~evlog[k].met

\* C3: when a cycle follows another at once (no time between them) with the
\* same observation, an alert that sent a notification and recorded its
\* trigger in the first cycle attempts no send in the second.
C3_SecondRunSendsNothing ==
    \A i \in 1..Len(evlog), j \in 1..Len(evlog) :
        ( /\ i < j /\ SameAlert(i, j)
          /\ evlog[j].cycle = evlog[i].cycle + 1
          /\ evlog[j].time = evlog[i].time
          /\ evlog[j].value = evlog[i].value
          /\ Sent(evlog[i]) /\ evlog[i].updated )
        => ~Attempted(evlog[j])

\* C6: an evaluation updates the alert's last_triggered only if one of its
\* channel sends succeeded.
C6_StateOnlyOnSuccess ==
    \A i \in 1..Len(evlog) : evlog[i].updated => Sent(evlog[i])

\* C7: when every send of a triggered alert failed, the trigger row written
\* for it has notification_sent = false, and it is written unless the INSERT
\* itself throws.
C7_FailedSendRecordedAsNotSent ==
    \A i \in 1..Len(evlog) :
        AllFailed(evlog[i]) =>
            /\ evlog[i].trigger > 0 =>
                  alert_triggers[evlog[i].trigger].notification_sent = FALSE
            /\ faults = 0 => evlog[i].trigger > 0

\* C8: after an attempt in which every send failed, the next cycle that
\* finds the condition met and persistent attempts the dispatch again.
C8_RetryAfterTotalFailure ==
    \A i \in 1..Len(evlog), j \in 1..Len(evlog) :
        ( /\ i < j /\ SameAlert(i, j)
          /\ evlog[j].cycle = evlog[i].cycle + 1
          /\ AllFailed(evlog[i])
          /\ evlog[j].persistent )
        => evlog[j].gate = "true"

\* C4: the in-memory cooldown allows at most one delivered notification of
\* an alert inside one cooldown window, also when a cycle evaluates the
\* alert while an earlier cycle's notification for it is still in flight.
C4_OneDispatchPerCooldownWindow ==
    \A d \in evlog, e \in evlog :
        (d # e /\ d.alert_id = e.alert_id /\ Sent(d) /\ Sent(e))
        => (e.time - d.time >= ALERT_COOLDOWN \/ d.time - e.time >= ALERT_COOLDOWN)

\* C9: an exception raised while one alert is evaluated is caught for that
\* alert only: a cycle is over only when every alert it loaded has been
\* evaluated, so no loaded row is left unvisited.
C9_NoAlertLeftBehind ==
    pc = "idle" => Len(queue) = 0

(***************************************************************************)
(* Properties of the evaluators (SpecEval).                                *)
(***************************************************************************)
EvalNumeric == evValue.k = "num" /\ evT1.k = "num"
\* the name each evaluator's vocabulary gives to an operator
EvalOpIs(op) ==
    IF evFn = "checkCondition"
    THEN evOp = (CASE op = "eq" -> "equals" [] op = "gt" -> "greaterThan"
                   [] op = "lt" -> "lessThan" [] OTHER -> "between")
    ELSE evOp = (CASE op = "eq" -> "equal_to" [] op = "gt" -> "greater_than"
                   [] op = "lt" -> "less_than" [] OTHER -> "between")

\* C11: for operator 'between' with numeric thresholds t1, t2 every
\* evaluator answers (value >= t1 and value <= t2); value = t1 and
\* value = t2 are met.
C11_BetweenIsClosedInterval ==
    (evResult # "pending" /\ evOp = "between" /\ EvalNumeric /\ evT2.k = "num")
    => evResult = BoolStr(evT1.n <= evValue.n /\ evValue.n <= evT2.n)

\* C12: equal-to is met exactly when |value - threshold| <= 0.1, the
\* boundary included; greater-than and less-than are strict.
C12_EqualWithinToleranceInclusive ==
    (evResult # "pending" /\ EvalNumeric) =>
        /\ EvalOpIs("eq") =>
              evResult = BoolStr(evValue.n - evT1.n <= Tolerance
                                 /\ evT1.n - evValue.n <= Tolerance)
        /\ EvalOpIs("gt") => evResult = BoolStr(evValue.n > evT1.n)
        /\ EvalOpIs("lt") => evResult = BoolStr(evValue.n < evT1.n)

Evaluated == Len(evlog') = Len(evlog) + 1
Latest    == evlog'[Len(evlog')]
NewChecks == (Len(alert_checks) + 1)..Len(alert_checks')

\* C14: a processAlert that evaluates the condition as not met writes no
\* check row with condition_met = true, sends nothing, appends no trigger
\* row and leaves the alerts table alone.
C14_NotMetDoesNothing ==
    [][ (Evaluated /\ ~Latest.met) =>
            /\ \A k \in NewChecks : ~alert_checks'[k].condition_met
            /\ ~Attempted(Latest)
            /\ alert_triggers' = alert_triggers
            /\ alerts' = alerts ]_vars

C14_Witness ==
    \E i \in 1..Len(evlog) :
        /\ evlog[i].fetched /\ ~evlog[i].met /\ evlog[i].logged
        /\ \E k \in 1..Len(alert_checks) :
              /\ alert_checks[k].alert_id = evlog[i].alert_id
              /\ ~alert_checks[k].condition_met

\* the batched monitor: an evaluation that is not met schedules no send
BatchedNotMetSchedulesNothing ==
    [][ \A e \in evlog' \ evlog : (e.kind = "eval" /\ ~e.met) => tasks' = tasks ]_vars

(***************************************************************************)
(* Properties of the batched monitor (SpecBatched).                        *)
(***************************************************************************)
\* C15: the frequency / cooldown gate is consulted for an alert only after
\* the cycle has evaluated its condition as met: an alert the gate turns
\* away in a cycle has been fetched and found met in that cycle.
C15_GateOnlyAfterConditionMet ==
    \A e \in evlog :
        (e.kind = "eval" /\ e.cooling) => (e.fetched /\ e.met)

\* C16: every alert whose observation was resolved in a cycle has a check
\* row (alert id, observed value, condition met) appended in that cycle,
\* whether the condition is met or not.
C16_ResolvedObservationIsLogged ==
    \A e \in evlog :
        (e.kind = "eval" /\ e.fetched /\ e.value.k = "num") =>
            \E k \in 1..Len(alert_checks) :
                /\ alert_checks[k].alert_id = e.alert_id
                /\ alert_checks[k].value = e.value
                /\ alert_checks[k].condition_met = e.met
                /\ alert_checks[k].timestamp = e.time

(***************************************************************************)
(* Properties of the monitor over metric kinds and locations (SpecLocate). *)
(***************************************************************************)
\* C17: an alert whose field lacks a latitude or a longitude is skipped for
\* the cycle, whatever its metric kind: no check row, no send, no trigger
\* row, and the other alerts of the cycle are evaluated as usual.
C17_NoCoordinatesNoEvaluation ==
    \A i \in 1..Len(evlog) :
        ~HasCoordinates(alerts[evlog[i].alert_id]) =>
            /\ ~evlog[i].fetched /\ ~evlog[i].logged
            /\ ~Attempted(evlog[i]) /\ evlog[i].trigger = 0

\* C18: when the upstream call for an alert fails, processAlert writes no
\* check row, sends nothing, writes no trigger row and the cycle goes on
\* (nothing reaches the scheduler); and the alert is evaluated again in the
\* next cycle that loads the alerts.
SkippedQuietly ==
    (Evaluated /\ Latest.upstreamFailed) =>
        /\ ~Latest.fetched /\ ~Latest.logged /\ ~Attempted(Latest)
        /\ alert_checks' = alert_checks
        /\ alert_triggers' = alert_triggers
        /\ alerts' = alerts
        /\ pc' = "running"
\* cycle c is over and its rows were loaded
CycleDone(c) ==
    /\ \E j \in 1..Len(evlog) : evlog[j].cycle = c
    /\ cycle > c \/ (cycle = c /\ pc = "idle")
RetriedNextCycle ==
    \A i \in 1..Len(evlog) :
        (evlog[i].upstreamFailed /\ CycleDone(evlog[i].cycle + 1)) =>
            \E j \in (i + 1)..Len(evlog) :
                SameAlert(i, j) /\ evlog[j].cycle = evlog[i].cycle + 1
C18_UpstreamFailureSkipsAndRetries ==
    [][SkippedQuietly]_vars /\ []RetriedNextCycle

C18_Witness ==
    \E i \in 1..Len(evlog), j \in 1..Len(evlog) :
        /\ evlog[i].upstreamFailed /\ ~evlog[i].logged
        /\ SameAlert(i, j) /\ evlog[j].cycle = evlog[i].cycle + 1
        /\ evlog[j].fetched /\ evlog[j].met /\ evlog[j].logged

(***************************************************************************)
(* Properties of the weather cache and the limiter.                        *)
(***************************************************************************)
\* C19: when the provider fails for a location that has a cached
\* observation, getCachedWeather answers that last good value, not a miss.
C19_FailureFallsBackToCachedValue ==
    \A i \in 1..Len(cwLast) :
        (cwLast[i].key \in CacheKeys /\ cwLast[i].upstream = "failed"
            /\ Len(cwLast[i].cached) > 0)
        => cwLast[i].result = cwLast[i].cached[1].data

\* calls granted at the times t <= u < t + window
RECURSIVE SumGrants(_, _)
SumGrants(g, T) ==
    IF T = {} THEN 0
    ELSE LET u == CHOOSE x \in T : TRUE IN g[u] + SumGrants(g, T \ {u})
GrantedFrom(t) ==
    SumGrants(grants, {u \in DOMAIN grants :
                          t <= u /\ u < t + weatherApiLimiter.window})

\* C20: the limiter grants at most `limit` (100) calls within any rolling
\* window of one hour.
C20_QuotaPerRollingWindow ==
    \A t \in DOMAIN grants : GrantedFrom(t) <= weatherApiLimiter.limit

\* the quota of the current window is used up
Exhausted ==
    /\ weatherApiLimiter.calls >= weatherApiLimiter.limit
    /\ now - weatherApiLimiter.lastReset <= weatherApiLimiter.window
\* what the cache holds for a key, of any age: its data, or a miss
Held(key) ==
    IF Len(weatherCache[key]) > 0 THEN weatherCache[key][1].data ELSE Null

\* C21: with the limiter's quota exhausted, getCachedWeather calls no
\* upstream (no grant, nothing stored) and answers at once with the entry
\* cached for the location, expired or not, or with a miss if there is none.
C21_ExhaustedQuotaServesStale ==
    [][ \A k \in CacheKeys, w \in WeatherData \cup {Null} :
            (Exhausted /\ getCachedWeather(k, w)) =>
                /\ grants' = grants
                /\ weatherCache' = weatherCache
                /\ cwLast'[1].upstream = "none"
                /\ cwLast'[1].result = Held(k) ]_vars

C21_Witness ==
    \E i \in 1..Len(cwLast) :
        /\ cwLast[i].granted = "false" /\ Len(cwLast[i].cached) > 0
        /\ cwLast[i].time - cwLast[i].cached[1].timestamp > WEATHER_CACHE_TTL
        /\ cwLast[i].result = cwLast[i].cached[1].data

\* age of an entry against a TTL, read off the state before a lookup
Younger(entry, ttl) == Len(entry) > 0 /\ now - entry[1].timestamp < ttl
Older(entry, ttl)   == Len(entry) > 0 /\ now - entry[1].timestamp > ttl
\* a lookup that answered from the cache without any call
ServedFromCache(entry) ==
    /\ cwLast'[1].result = entry[1].data /\ cwLast'[1].upstream = "none"
    /\ grants' = grants /\ weatherApiLimiter' = weatherApiLimiter
    /\ weatherCache' = weatherCache /\ fieldCache' = fieldCache
WeatherInputs == WeatherData \cup {Null}
FieldInputs   == FieldRows \cup {Undefined, Null}

\* C22 as stated: an entry younger than its TTL is served without upstream
\* call and without quota; an entry older than its TTL always leads to a new
\* fetch.
C22_FreshServedExpiredRefetched ==
    [][ /\ \A k \in CacheKeys, w \in WeatherInputs : getCachedWeather(k, w) =>
              /\ Younger(weatherCache[k], WEATHER_CACHE_TTL) =>
                    ServedFromCache(weatherCache[k])
              /\ Older(weatherCache[k], WEATHER_CACHE_TTL) =>
                    cwLast'[1].upstream # "none"
        /\ \A f \in FieldIds, r \in FieldInputs : getCachedField(f, r) =>
              /\ Younger(fieldCache[f], FIELD_CACHE_TTL) =>
                    ServedFromCache(fieldCache[f])
              /\ Older(fieldCache[f], FIELD_CACHE_TTL) =>
                    cwLast'[1].upstream # "none" ]_vars

\* C22 amended: an entry older than its TTL leads to a new fetch unless the
\* limiter's quota is exhausted; then the expired weather entry is returned
\* as it is, without a fetch.
C22_FreshServedExpiredRefetchedUnlessLimited ==
    [][ /\ \A k \in CacheKeys, w \in WeatherInputs : getCachedWeather(k, w) =>
              /\ Younger(weatherCache[k], WEATHER_CACHE_TTL) =>
                    ServedFromCache(weatherCache[k])
              /\ (Older(weatherCache[k], WEATHER_CACHE_TTL) /\ ~Exhausted) =>
                    (cwLast'[1].upstream # "none" /\ cwLast'[1].result = w)
              /\ (Older(weatherCache[k], WEATHER_CACHE_TTL) /\ Exhausted) =>
                    (cwLast'[1].upstream = "none" /\ cwLast'[1].result = Held(k))
        /\ \A f \in FieldIds, r \in FieldInputs : getCachedField(f, r) =>
              /\ Younger(fieldCache[f], FIELD_CACHE_TTL) =>
                    ServedFromCache(fieldCache[f])
              /\ Older(fieldCache[f], FIELD_CACHE_TTL) =>
                    (cwLast'[1].upstream # "none" /\ cwLast'[1].result = r) ]_vars

\* a fresh entry was served, for the weather and for the field cache, and an
\* expired one was fetched again
C22_Witness ==
    \E i \in 1..Len(cwLast) :
        /\ Len(cwLast[i].cached) > 0 /\ cwLast[i].upstream = "ok"
        /\ cwLast[i].time - cwLast[i].cached[1].timestamp > WEATHER_CACHE_TTL
        /\ cwLast[i].key \in CacheKeys
        /\ cwLast[i].result # cwLast[i].cached[1].data
        /\ Younger(fieldCache[1], FIELD_CACHE_TTL)

\* C23: after cleanupCache no field, weather or cooldown entry older than its
\* TTL / cooldown period is left; an entry a read would serve as fresh is
\* kept as it is, and isAlertInCooldown answers the same before and after.
C23_SweepRemovesExactlyTheExpired ==
    [][ cleanupCache =>
          /\ \A f \in FieldIds :
                /\ Len(fieldCache'[f]) > 0 =>
                      now - fieldCache'[f][1].timestamp <= FIELD_CACHE_TTL
                /\ Younger(fieldCache[f], FIELD_CACHE_TTL) =>
                      fieldCache'[f] = fieldCache[f]
          /\ \A k \in CacheKeys :
                /\ Len(weatherCache'[k]) > 0 =>
                      now - weatherCache'[k][1].timestamp <= WEATHER_CACHE_TTL
                /\ Younger(weatherCache[k], WEATHER_CACHE_TTL) =>
                      weatherCache'[k] = weatherCache[k]
          /\ \A a \in BatAlerts :
                /\ Len(alertCooldownCache'[a]) > 0 =>
                      now - alertCooldownCache'[a][1] <= ALERT_COOLDOWN
                /\ isAlertInCooldown(a) =>
                      alertCooldownCache'[a] = alertCooldownCache[a]
                /\ isAlertInCooldown(a)' = isAlertInCooldown(a) ]_vars

\* a sweep has removed the expired weather entry of the last lookup while a
\* fresh field entry and a cooldown still in effect are in place
C23_Witness ==
    /\ Len(cwLast) > 0 /\ cwLast[1].key \in CacheKeys /\ cwLast[1].upstream = "ok"
    /\ weatherCache[cwLast[1].key] = <<>>
    /\ \E a \in BatAlerts : isAlertInCooldown(a)

\* the batch an alert of the cycle falls into: the alerts are loaded in
\* ascending id order and all of ManyAlerts are active
BatchOf(a) == (a - 1) \div BATCH_SIZE
SettledInCycle(a) ==
    \E e \in evlog : e.kind = "eval" /\ e.alert_id = a /\ e.cycle = cycle

\* C24: within a cycle at most BATCH_SIZE evaluations are in flight, they
\* all belong to one batch, and every alert of an earlier batch has settled
\* before an alert of a later batch is in flight.
C24_AtMostBatchSizeInFlight ==
    /\ Cardinality(batch) <= BATCH_SIZE
    /\ \A a \in batch : \A b \in DOMAIN alerts :
          /\ b \in batch => BatchOf(b) = BatchOf(a)
          /\ BatchOf(b) < BatchOf(a) => SettledInCycle(b)
\* the second batch of a cycle is in flight
C24_Witness ==
    \E a \in batch : BatchOf(a) = 1 /\ \A b \in 1..BATCH_SIZE : SettledInCycle(b)

\* cycle c ended at the load of the definitions: it is over and no alert
\* was evaluated in it (a cycle that loads evaluates every alert of ManyAlerts)
LoadFailedIn(c) ==
    /\ cycle = c /\ pc # "running" /\ faults > 0
    /\ ~\E e \in evlog : e.cycle = c

\* C25: a cycle that fails as a whole leaves the scheduler running: as long
\* as the run goes on, a later tick starts the next cycle.
C25_FailedCycleDoesNotStopScheduler ==
    \A c \in 1..(MaxCycles - 1) : LoadFailedIn(c) ~> (cycle > c /\ pc # "crashed")
\* a cycle has started after one whose load failed
C25_Witness ==
    /\ cycle = 2 /\ pc = "running" /\ faults = 1
    /\ ~\E e \in evlog : e.cycle = 1

\* C26: every started cycle eventually completes, also when an upstream
\* request is never answered.
C26_EveryCycleCompletes == (pc = "running") ~> (pc = "idle")

\* C27: the process halts at startup only after more than one connection
\* check has failed: a single failed check does not halt it.
C27_HaltOnlyAfterRetries == pc = "halted" => faults > 1

\* C28: when the process has exited on a shutdown signal no dispatch is
\* half-done: none has sent its mail without the last_triggered / cooldown
\* update that belongs to it.
C28_NoDispatchHalfDoneAtExit ==
    pc = "exited" => \A t \in tasks : t.stage # "sent"

\* C29: an alert that is inactive when the cycles load the definitions is
\* never evaluated: there is no check row, no trigger row and no evaluation
\* or dispatch for it, and its last_triggered is never written.
C29_InactiveNeverEvaluated ==
    \A a \in DOMAIN alerts :
        ~alerts[a].active =>
            /\ \A i \in 1..Len(alert_checks) : alert_checks[i].alert_id # a
            /\ \A i \in 1..Len(alert_triggers) : alert_triggers[i].alert_id # a
            /\ \A i \in 1..Len(evlog) : evlog[i].alert_id # a
            /\ alerts[a].last_triggered = <<>>
\* two cycles are over, the active alerts were evaluated in both and one of
\* them was dispatched, next to an inactive alert
C29_Witness ==
    /\ cycle = 2 /\ pc = "idle"
    /\ \E a \in DOMAIN alerts : ~alerts[a].active
    /\ \E i \in 1..Len(evlog) : evlog[i].cycle = 2 /\ Sent(evlog[i])

\* C30: every stored alert whose operator is "between" has both thresholds
\* present (a second threshold of 0 included) with threshold1 <= threshold2.
C30_BetweenHasOrderedThresholds ==
    \A i \in 1..Len(alerts) :
        alerts[i].condition_type = "between" =>
            /\ alerts[i].threshold_value.k = "num"
            /\ alerts[i].second_threshold_value.k = "num"
            /\ alerts[i].threshold_value.n <= alerts[i].second_threshold_value.n

\* C31: as long as no query has failed, an alert with duration 0 or 1 whose
\* condition is met satisfies persistence in that same cycle, the first one
\* included: the check row of the cycle is written before the history is read.
C31_ImmediateIsPersistentAtOnce ==
    faults = 0 =>
        \A i \in 1..Len(evlog) :
            (evlog[i].met /\ alerts[evlog[i].alert_id].durationHours <= 1)
                => evlog[i].persistent
\* in the first cycle, with no check history before it, an alert of duration 0
\* and one of duration 1 met their condition and were found persistent
C31_Witness ==
    /\ faults = 0
    /\ \E i, j \in 1..Len(evlog) :
          /\ evlog[i].cycle = 1 /\ evlog[j].cycle = 1
          /\ alerts[evlog[i].alert_id].durationHours = 0
          /\ alerts[evlog[j].alert_id].durationHours = 1
          /\ evlog[i].met /\ evlog[i].persistent
          /\ evlog[j].met /\ evlog[j].persistent /\ evlog[j].logged

\* C32: when the check row of the cycle could not be written (or the history
\* could not be read), an alert with a required duration >= 1 is not found
\* persistent and nothing is dispatched for it in that cycle.
C32_NoOptimisticPersistence ==
    \A i \in 1..Len(evlog) :
        (evlog[i].met /\ ~evlog[i].logged
            /\ alerts[evlog[i].alert_id].durationHours >= 1)
        => (~evlog[i].persistent /\ ~Attempted(evlog[i]))

UnknownOp(e) == alerts[e.alert_id].conditionType \notin RecognisedOps

\* C33: an alert whose operator the evaluator does not recognise is never
\* met: nothing is dispatched and no trigger is recorded for it, its
\* evaluation runs through to the check row as any other (no error), and
\* the alerts after it are evaluated in the same cycle.
C33_UnknownOperatorNeverMet ==
    \A i \in 1..Len(evlog) :
        UnknownOp(evlog[i]) =>
            /\ ~evlog[i].met /\ ~evlog[i].persistent
            /\ ~Attempted(evlog[i]) /\ evlog[i].trigger = 0
            /\ (faults = 0 /\ evlog[i].fetched /\ evlog[i].value.k = "num")
                  => evlog[i].logged
            /\ CycleDone(evlog[i].cycle) =>
                  \E j \in (i + 1)..Len(evlog) :
                      evlog[j].cycle = evlog[i].cycle /\ ~SameAlert(i, j)
\* in both cycles the alert with the unknown operator saw a value above its
\* threshold, and the alert after it was evaluated and dispatched
C33_Witness ==
    /\ cycle = 2 /\ pc = "idle"
    /\ \A c \in 1..2 : \E i, j \in 1..Len(evlog) :
          /\ evlog[i].cycle = c /\ evlog[j].cycle = c /\ i < j
          /\ UnknownOp(evlog[i]) /\ evlog[i].value = Num(3600) /\ evlog[i].logged
          /\ ~UnknownOp(evlog[j]) /\ evlog[j].met /\ Sent(evlog[j])

\* C34: an observation with a numeric value, 0 included, is present: a
\* less-than alert is met exactly when the value is below its threshold
\* (temperature 0 with less-than 5 is met).
C34_ZeroIsPresent ==
    \A i \in 1..Len(evlog) :
        (evlog[i].fetched /\ ~evlog[i].threw /\ evlog[i].value.k = "num"
            /\ alerts[evlog[i].alert_id].condition_type = "less_than")
        => (evlog[i].met <=>
                evlog[i].value.n < alerts[evlog[i].alert_id].threshold_value.n)

IsTestRow(r) == "is_test" \in DOMAIN r
RealTriggers == SelectSeq(alert_triggers, LAMBDA r : ~IsTestRow(r))

\* C36: test notifications leave the frequency-policy state alone: at any
\* moment the gate answers for every alert what it would answer had no test
\* notification been sent.
C36_TestLeavesFrequencyStateAlone ==
    \A a \in DOMAIN alerts :
        checkNotificationFrequency(a, alerts[a].notificationFrequency,
                                   alert_triggers, alert_checks, now, "none")
        = checkNotificationFrequency(a, alerts[a].notificationFrequency,
                                     RealTriggers, alert_checks, now, "none")

\* C37: an updateAlert that is applied leaves every field the request omits
\* as it was stored, and a request that carries no field at all is answered
\* 400 ('No fields to update') and changes nothing.
C37_PartialUpdateKeepsOmitted ==
    [][ (Evaluated /\ Latest.alert_id \in 1..Len(alerts)) =>
            /\ \A f \in PatchFields :
                  Latest.body[f] = <<>> =>
                      alerts'[Latest.alert_id][f] = alerts[Latest.alert_id][f]
            /\ (\A f \in PatchFields : Latest.body[f] = <<>>) =>
                  (Latest.status = "400" /\ alerts' = alerts) ]_vars

====
